---------------------------- MODULE Spec2Model ----------------------------
(***************************************************************************)
(* The operation pipeline of the Anedya Go SDK (validate, encode, build,  *)
(* transmit, read, decode, classify) and the reason-code registry of the  *)
(* errors package.  Every exported API operation of the repository that   *)
(* issues an HTTP request is described by one record, written from the    *)
(* body of that function; the pipeline actions interpret the record.      *)
(***************************************************************************)
EXTENDS Integers, FiniteSets, Sequences, TLC

(***************************************************************************)
(* Bounds of the model.                                                    *)
(***************************************************************************)
\* Number of distinct non-2xx / non-200 status codes the server may answer
\* with in addition to 200 (the first is taken from the 2xx range).
MaxExtraStatus == 2

\* Number of distinct error strings the server may put in the envelope in
\* addition to the empty string.
MaxMessages == 1

(***************************************************************************)
(* net/http constants used by the status checks.                           *)
(***************************************************************************)
StatusOK == 200
StatusMultipleChoices == 300

(***************************************************************************)
(* errors/errors.go: the registry.                                         *)
(***************************************************************************)
ErrUnknown == "ErrUnknown"

codeMapInit ==
  [ c \in { "generic::malformedrequest", "node::devidexists", "node::childexists",
            "node::uniquealiasviolation", "node::uniquechildviolation",
            "node::childnotfound", "node::invalidparentid", "node::invalidchildid",
            "node::nodenotfound", "node::devicenotfound", "node::invaliduuid",
            "data::invalidorder", "data::variablenotfound", "data::invalidnodeid",
            "logs::invalidnodeid", "logs::invalidtimerange",
            "variable::namerequired", "variable::variablerequired",
            "variable::typerequired", "health::limitexceeded",
            "aggregates::invalidaggregationmethod",
            "aggregates::missingaggregationmethod",
            "aggregates::invalidintervalmeasure", "aggregates::invalidinterval",
            "aggregates::invalidtimezone", "aggregates::invalidfiltertype",
            "aggregates::invalidtimerange", "fa::invalidexpiry", "fa::tokennofound",
            "cmd::invalidexpiry", "cmd::unknowntype", "cmd::notfound",
            "cmd::invalidfilter", "cmd::cmdidtoolong", "vs::invalidscope",
            "vs::invalidtype", "vs::invalidns", "vs::invalidrequest",
            "vs::keynotfound" } |->
      CASE c = "generic::malformedrequest" -> "ErrInvalidInput"
        [] c = "node::devidexists" -> "ErrNodeDeviceIDExists"
        [] c = "node::childexists" -> "ErrNodeChildExists"
        [] c = "node::uniquealiasviolation" -> "ErrNodeUniqueAliasViolation"
        [] c = "node::uniquechildviolation" -> "ErrNodeUniqueChildViolation"
        [] c = "node::childnotfound" -> "ErrNodeChildNotFound"
        [] c = "node::invalidparentid" -> "ErrNodeInvalidParentID"
        [] c = "node::invalidchildid" -> "ErrNodeInvalidChildID"
        [] c = "node::nodenotfound" -> "ErrNodeNotFound"
        [] c = "node::devicenotfound" -> "ErrNodeDeviceNotFound"
        [] c = "node::invaliduuid" -> "ErrNodeInvalidUUID"
        [] c = "data::invalidorder" -> "ErrInvalidOrder"
        [] c = "data::variablenotfound" -> "ErrVariableNotFound"
        [] c = "data::invalidnodeid" -> "ErrInvalidNodeID"
        [] c = "logs::invalidnodeid" -> "ErrInvalidNodeID"
        [] c = "logs::invalidtimerange" -> "ErrInvalidTimeRange"
        [] c = "variable::namerequired" -> "ErrVariableNameRequired"
        [] c = "variable::variablerequired" -> "ErrVariableRequired"
        [] c = "variable::typerequired" -> "ErrVariableTypeRequired"
        [] c = "health::limitexceeded" -> "ErrHealthLimitExceeded"
        [] c = "aggregates::invalidaggregationmethod" -> "ErrInvalidAggregationMethod"
        [] c = "aggregates::missingaggregationmethod" -> "ErrAggregationMethodRequired"
        [] c = "aggregates::invalidintervalmeasure" -> "ErrInvalidIntervalMeasure"
        [] c = "aggregates::invalidinterval" -> "ErrInvalidInterval"
        [] c = "aggregates::invalidtimezone" -> "ErrInvalidTimezone"
        [] c = "aggregates::invalidfiltertype" -> "ErrInvalidFilterType"
        [] c = "aggregates::invalidtimerange" -> "ErrInvalidTimeRange"
        [] c = "fa::invalidexpiry" -> "ErrExpiryRequried"
        [] c = "fa::tokennofound" -> "ErrInvalidToken"
        [] c = "cmd::invalidexpiry" -> "ErrInvalidExpiry"
        [] c = "cmd::unknowntype" -> "ErrInvalidCommandType"
        [] c = "cmd::notfound" -> "ErrCommandNotFound"
        [] c = "cmd::invalidfilter" -> "ErrInvalidFilter"
        [] c = "cmd::cmdidtoolong" -> "ErrInvalidCommandID"
        [] c = "vs::invalidscope" -> "ErrInvalidNamespaceScope"
        [] c = "vs::invalidtype" -> "ErrInvalidValueType"
        [] c = "vs::invalidns" -> "ErrInvalidNamespaceScope"
        [] c = "vs::invalidrequest" -> "ErrInvalidInput"
        [] c = "vs::keynotfound" -> "ErrKeyNotFound" ]

(***************************************************************************)
(* The operations.  One record per function that calls httpClient.Do; the  *)
(* fields are read off the function body:                                  *)
(*   ptrReq     the request is passed by pointer (so it can be nil)        *)
(*   hasToken   the manager checks its own authToken before encoding       *)
(*   nilDeref   where a nil request that is not rejected is dereferenced   *)
(*   rejects    the input classes the checks before json.Marshal reject    *)
(*   valErr     the sentinel wrapped by the error of the first such check  *)
(*              ("none": fmt.Errorf / errors.New, no sentinel)             *)
(*   encErr .. decErr   the sentinel of each stage's error, "none" likewise*)
(*   read       io.ReadAll, json.NewDecoder on the stream, or no read      *)
(*   decodeFrom the bytes given to the JSON decoder                        *)
(*   status     "none", "range" (<200 or >=300 fails), "eq200" (!=200)     *)
(*   statusFirst  the status check precedes the decode                     *)
(*   classify   errors.GetError or fmt.Errorf on a failed response         *)
(*   resOnErr   the failed-response return statement also returns &apiResp *)
(*   result     "struct" (&T{...}), "payload" (a field of the envelope),   *)
(*              "none" (the function returns only an error)                *)
(*   postCheck  a further check of the payload after success               *)
(*   emptyBodyOk  an empty body with status 200 is returned as success     *)
(*   prints     the function writes the decoded envelope to standard output *)
(*   method     the method given to http.NewRequestWithContext             *)
(*   sets       the headers the operation sets on its request itself       *)
(*   fields     further input classes of the request: "unlisted" (a        *)
(*              compute method or interval measure that is not one of the  *)
(*              declared constants), "emptyId" (a valid namespace scope    *)
(*              with an empty namespace id)                                *)
(*   limit        the handling of the request's limit (see NoLimitRule)       *)
(***************************************************************************)
\* The handling of the request's limit by an operation: reject it (when
\* below lo, or outside lo..hi), or replace it by a default (when zero, when
\* not positive, or when outside lo..hi), in the caller's record or in a
\* local copy.  This rule is that of the operations without a limit.
NoLimitRule ==
  [has |-> FALSE, reject |-> "none", dflt |-> "none", lo |-> 0, hi |-> 0,
   to |-> 0, inPlace |-> FALSE, err |-> "none"]

\* accessTokens/CreateToken.go:87-156  accessTokens.CreateNewAccessToken
CreateNewAccessToken_CreateToken_87 ==
  [ id |-> "CreateNewAccessToken_CreateToken_87", name |-> "CreateNewAccessToken", mgr |-> "accessTokens",
    ptrReq |-> TRUE, hasToken |-> FALSE,
    nilDeref |-> "never",
    rejects |-> {"nil", "missing", "invalid"},
    valErr |-> [nil |-> "none", missing |-> "none", invalid |-> "none", notoken |-> "none", unlisted |-> "none", emptyId |-> "none"],
    encErr |-> "none", buildErr |-> "none", xmitErr |-> "none",
    readErr |-> "none", decErr |-> "none",
    read |-> "ReadAll", decodeFrom |-> "response",
    status |-> "range", statusFirst |-> TRUE,
    classify |-> "fmt", resOnErr |-> FALSE,
    result |-> "struct", postCheck |-> FALSE, emptyBodyOk |-> FALSE,
    prints |-> FALSE, method |-> "POST", sets |-> {"Accept", "Content-Type"},
    fields |-> {},
    limit |-> NoLimitRule ]

\* aggregations/api_op_time_aggregations.go:219-341  aggregations.GetAggregationByTime
GetAggregationByTime_api_op_time_aggregations_219 ==
  [ id |-> "GetAggregationByTime_api_op_time_aggregations_219", name |-> "GetAggregationByTime", mgr |-> "aggregations",
    ptrReq |-> TRUE, hasToken |-> FALSE,
    nilDeref |-> "never",
    rejects |-> {"nil", "missing", "invalid"},
    valErr |-> [nil |-> "ErrRequestNil", missing |-> "ErrVariableRequired", invalid |-> "ErrInvalidTimeRange", notoken |-> "none", unlisted |-> "none", emptyId |-> "none"],
    encErr |-> "ErrRequestEncodeFailed", buildErr |-> "ErrRequestBuildFailed", xmitErr |-> "ErrRequestFailed",
    readErr |-> "ErrResponseReadFailed", decErr |-> "ErrResponseDecodeFailed",
    read |-> "ReadAll", decodeFrom |-> "response",
    status |-> "none", statusFirst |-> FALSE,
    classify |-> "GetError", resOnErr |-> FALSE,
    result |-> "struct", postCheck |-> FALSE, emptyBodyOk |-> FALSE,
    prints |-> FALSE, method |-> "POST", sets |-> {},
    fields |-> {"unlisted"},
    limit |-> NoLimitRule ]

\* commands/api_op_invalidate_command.go:56-140  commands.InvalidateCommand
InvalidateCommand_api_op_invalidate_command_56 ==
  [ id |-> "InvalidateCommand_api_op_invalidate_command_56", name |-> "InvalidateCommand", mgr |-> "commands",
    ptrReq |-> TRUE, hasToken |-> FALSE,
    nilDeref |-> "never",
    rejects |-> {"nil", "missing"},
    valErr |-> [nil |-> "ErrRequestNil", missing |-> "ErrInvalidCommandID", invalid |-> "none", notoken |-> "none", unlisted |-> "none", emptyId |-> "none"],
    encErr |-> "ErrRequestEncodeFailed", buildErr |-> "ErrRequestBuildFailed", xmitErr |-> "ErrRequestFailed",
    readErr |-> "ErrResponseReadFailed", decErr |-> "ErrResponseDecodeFailed",
    read |-> "ReadAll", decodeFrom |-> "response",
    status |-> "none", statusFirst |-> FALSE,
    classify |-> "GetError", resOnErr |-> FALSE,
    result |-> "struct", postCheck |-> FALSE, emptyBodyOk |-> FALSE,
    prints |-> FALSE, method |-> "POST", sets |-> {},
    fields |-> {},
    limit |-> NoLimitRule ]

\* commands/api_op_list_commands.go:101-188  commands.ListCommands
ListCommands_api_op_list_commands_101 ==
  [ id |-> "ListCommands_api_op_list_commands_101", name |-> "ListCommands", mgr |-> "commands",
    ptrReq |-> TRUE, hasToken |-> FALSE,
    nilDeref |-> "never",
    rejects |-> {"nil", "invalid"},
    valErr |-> [nil |-> "ErrRequestNil", missing |-> "none", invalid |-> "ErrInvalidOffset", notoken |-> "none", unlisted |-> "none", emptyId |-> "none"],
    encErr |-> "ErrRequestEncodeFailed", buildErr |-> "ErrRequestBuildFailed", xmitErr |-> "ErrRequestFailed",
    readErr |-> "ErrResponseReadFailed", decErr |-> "ErrResponseDecodeFailed",
    read |-> "ReadAll", decodeFrom |-> "response",
    status |-> "none", statusFirst |-> FALSE,
    classify |-> "GetError", resOnErr |-> FALSE,
    result |-> "struct", postCheck |-> FALSE, emptyBodyOk |-> FALSE,
    prints |-> FALSE, method |-> "POST", sets |-> {},
    fields |-> {},
    limit |-> [has |-> TRUE, reject |-> "outside", dflt |-> "none", lo |-> 0, hi |-> 100, to |-> 0, inPlace |-> FALSE, err |-> "ErrInvalidLimit"] ]

\* commands/api_op_send_command.go:81-192  commands.SendCommand
SendCommand_api_op_send_command_81 ==
  [ id |-> "SendCommand_api_op_send_command_81", name |-> "SendCommand", mgr |-> "commands",
    ptrReq |-> TRUE, hasToken |-> FALSE,
    nilDeref |-> "never",
    rejects |-> {"nil", "missing", "invalid"},
    valErr |-> [nil |-> "ErrRequestNil", missing |-> "ErrInvalidNodeID", invalid |-> "ErrInvalidCommandType", notoken |-> "none", unlisted |-> "none", emptyId |-> "none"],
    encErr |-> "ErrRequestEncodeFailed", buildErr |-> "ErrRequestBuildFailed", xmitErr |-> "ErrRequestFailed",
    readErr |-> "ErrResponseReadFailed", decErr |-> "ErrResponseDecodeFailed",
    read |-> "ReadAll", decodeFrom |-> "response",
    status |-> "none", statusFirst |-> FALSE,
    classify |-> "GetError", resOnErr |-> FALSE,
    result |-> "struct", postCheck |-> FALSE, emptyBodyOk |-> FALSE,
    prints |-> FALSE, method |-> "POST", sets |-> {},
    fields |-> {},
    limit |-> NoLimitRule ]

\* data/get_data.go:87-142  data.GetData
GetData_get_data_87 ==
  [ id |-> "GetData_get_data_87", name |-> "GetData", mgr |-> "data",
    ptrReq |-> TRUE, hasToken |-> TRUE,
    nilDeref |-> "never",
    rejects |-> {"nil", "missing", "invalid", "notoken"},
    valErr |-> [nil |-> "none", missing |-> "none", invalid |-> "none", notoken |-> "none", unlisted |-> "none", emptyId |-> "none"],
    encErr |-> "none", buildErr |-> "none", xmitErr |-> "none",
    readErr |-> "none", decErr |-> "none",
    read |-> "stream", decodeFrom |-> "response",
    status |-> "eq200", statusFirst |-> FALSE,
    classify |-> "fmt", resOnErr |-> TRUE,
    result |-> "struct", postCheck |-> FALSE, emptyBodyOk |-> FALSE,
    prints |-> FALSE, method |-> "POST", sets |-> {"Accept", "Authorization", "Content-Type"},
    fields |-> {},
    limit |-> NoLimitRule ]

\* data/get_latest_data.go:47-101  data.GetLatestData
GetLatestData_get_latest_data_47 ==
  [ id |-> "GetLatestData_get_latest_data_47", name |-> "GetLatestData", mgr |-> "data",
    ptrReq |-> TRUE, hasToken |-> TRUE,
    nilDeref |-> "never",
    rejects |-> {"nil", "missing", "invalid", "notoken"},
    valErr |-> [nil |-> "none", missing |-> "none", invalid |-> "none", notoken |-> "none", unlisted |-> "none", emptyId |-> "none"],
    encErr |-> "none", buildErr |-> "none", xmitErr |-> "none",
    readErr |-> "none", decErr |-> "none",
    read |-> "stream", decodeFrom |-> "response",
    status |-> "eq200", statusFirst |-> FALSE,
    classify |-> "fmt", resOnErr |-> TRUE,
    result |-> "struct", postCheck |-> FALSE, emptyBodyOk |-> FALSE,
    prints |-> FALSE, method |-> "POST", sets |-> {"Accept", "Authorization", "Content-Type"},
    fields |-> {},
    limit |-> NoLimitRule ]

\* dataAccess/api_op_get_for_variable.go:58-142  dataAccess.GetData
GetData_api_op_get_for_variable_58 ==
  [ id |-> "GetData_api_op_get_for_variable_58", name |-> "GetData", mgr |-> "dataAccess",
    ptrReq |-> TRUE, hasToken |-> FALSE,
    nilDeref |-> "never",
    rejects |-> {"nil", "missing", "invalid"},
    valErr |-> [nil |-> "ErrRequestNil", missing |-> "ErrVariableRequired", invalid |-> "ErrInvalidTimeRange", notoken |-> "none", unlisted |-> "none", emptyId |-> "none"],
    encErr |-> "ErrRequestEncodeFailed", buildErr |-> "ErrRequestBuildFailed", xmitErr |-> "ErrRequestFailed",
    readErr |-> "none", decErr |-> "ErrResponseDecodeFailed",
    read |-> "stream", decodeFrom |-> "response",
    status |-> "eq200", statusFirst |-> FALSE,
    classify |-> "GetError", resOnErr |-> TRUE,
    result |-> "struct", postCheck |-> FALSE, emptyBodyOk |-> FALSE,
    prints |-> FALSE, method |-> "POST", sets |-> {},
    fields |-> {},
    limit |-> NoLimitRule ]

\* dataAccess/api_op_get_latest_data_variable.go:35-114  dataAccess.GetLatestData
GetLatestData_api_op_get_latest_data_variable_35 ==
  [ id |-> "GetLatestData_api_op_get_latest_data_variable_35", name |-> "GetLatestData", mgr |-> "dataAccess",
    ptrReq |-> TRUE, hasToken |-> FALSE,
    nilDeref |-> "never",
    rejects |-> {"nil", "missing"},
    valErr |-> [nil |-> "ErrRequestNil", missing |-> "ErrVariableRequired", invalid |-> "none", notoken |-> "none", unlisted |-> "none", emptyId |-> "none"],
    encErr |-> "ErrRequestEncodeFailed", buildErr |-> "ErrRequestBuildFailed", xmitErr |-> "ErrRequestFailed",
    readErr |-> "none", decErr |-> "ErrResponseDecodeFailed",
    read |-> "stream", decodeFrom |-> "response",
    status |-> "eq200", statusFirst |-> FALSE,
    classify |-> "GetError", resOnErr |-> TRUE,
    result |-> "struct", postCheck |-> FALSE, emptyBodyOk |-> FALSE,
    prints |-> FALSE, method |-> "POST", sets |-> {},
    fields |-> {},
    limit |-> NoLimitRule ]

\* dataAccess/api_op_get_snapshot.go:72-177  dataAccess.GetSnapshot
GetSnapshot_api_op_get_snapshot_72 ==
  [ id |-> "GetSnapshot_api_op_get_snapshot_72", name |-> "GetSnapshot", mgr |-> "dataAccess",
    ptrReq |-> TRUE, hasToken |-> FALSE,
    nilDeref |-> "never",
    rejects |-> {"nil", "missing", "invalid"},
    valErr |-> [nil |-> "ErrRequestNil", missing |-> "ErrVariableRequired", invalid |-> "ErrInvalidTimestamp", notoken |-> "none", unlisted |-> "none", emptyId |-> "none"],
    encErr |-> "ErrRequestEncodeFailed", buildErr |-> "ErrRequestBuildFailed", xmitErr |-> "ErrRequestFailed",
    readErr |-> "ErrResponseReadFailed", decErr |-> "ErrResponseDecodeFailed",
    read |-> "ReadAll", decodeFrom |-> "response",
    status |-> "none", statusFirst |-> FALSE,
    classify |-> "GetError", resOnErr |-> FALSE,
    result |-> "struct", postCheck |-> FALSE, emptyBodyOk |-> FALSE,
    prints |-> FALSE, method |-> "POST", sets |-> {},
    fields |-> {},
    limit |-> NoLimitRule ]

\* dataAccess/api_op_get_snapshot.go:214-300  dataAccess.GetSnapshot
GetSnapshot_api_op_get_snapshot_214 ==
  [ id |-> "GetSnapshot_api_op_get_snapshot_214", name |-> "GetSnapshot", mgr |-> "dataAccess",
    ptrReq |-> TRUE, hasToken |-> FALSE,
    nilDeref |-> "never",
    rejects |-> {"nil", "missing", "invalid"},
    valErr |-> [nil |-> "ErrRequestNil", missing |-> "ErrVariableRequired", invalid |-> "ErrInvalidTimestamp", notoken |-> "none", unlisted |-> "none", emptyId |-> "none"],
    encErr |-> "ErrRequestEncodeFailed", buildErr |-> "ErrRequestBuildFailed", xmitErr |-> "ErrRequestFailed",
    readErr |-> "none", decErr |-> "ErrResponseDecodeFailed",
    read |-> "stream", decodeFrom |-> "response",
    status |-> "eq200", statusFirst |-> FALSE,
    classify |-> "GetError", resOnErr |-> TRUE,
    result |-> "struct", postCheck |-> FALSE, emptyBodyOk |-> FALSE,
    prints |-> FALSE, method |-> "POST", sets |-> {},
    fields |-> {},
    limit |-> NoLimitRule ]

\* dataAccess/datapoint.go:134-225  dataAccess.GetLatestData
GetLatestData_datapoint_134 ==
  [ id |-> "GetLatestData_datapoint_134", name |-> "GetLatestData", mgr |-> "dataAccess",
    ptrReq |-> TRUE, hasToken |-> FALSE,
    nilDeref |-> "never",
    rejects |-> {"nil", "missing"},
    valErr |-> [nil |-> "ErrRequestNil", missing |-> "ErrVariableRequired", invalid |-> "none", notoken |-> "none", unlisted |-> "none", emptyId |-> "none"],
    encErr |-> "ErrRequestEncodeFailed", buildErr |-> "ErrRequestBuildFailed", xmitErr |-> "ErrRequestFailed",
    readErr |-> "none", decErr |-> "ErrResponseDecodeFailed",
    read |-> "stream", decodeFrom |-> "response",
    status |-> "eq200", statusFirst |-> FALSE,
    classify |-> "GetError", resOnErr |-> TRUE,
    result |-> "struct", postCheck |-> FALSE, emptyBodyOk |-> FALSE,
    prints |-> FALSE, method |-> "POST", sets |-> {},
    fields |-> {},
    limit |-> NoLimitRule ]

\* dataAccess/datapoint.go:293-387  dataAccess.GetLatestData
GetLatestData_datapoint_293 ==
  [ id |-> "GetLatestData_datapoint_293", name |-> "GetLatestData", mgr |-> "dataAccess",
    ptrReq |-> TRUE, hasToken |-> FALSE,
    nilDeref |-> "never",
    rejects |-> {"nil", "missing"},
    valErr |-> [nil |-> "ErrRequestNil", missing |-> "ErrVariableRequired", invalid |-> "none", notoken |-> "none", unlisted |-> "none", emptyId |-> "none"],
    encErr |-> "ErrRequestEncodeFailed", buildErr |-> "ErrRequestBuildFailed", xmitErr |-> "ErrRequestFailed",
    readErr |-> "none", decErr |-> "ErrResponseDecodeFailed",
    read |-> "stream", decodeFrom |-> "response",
    status |-> "none", statusFirst |-> FALSE,
    classify |-> "GetError", resOnErr |-> FALSE,
    result |-> "struct", postCheck |-> FALSE, emptyBodyOk |-> FALSE,
    prints |-> FALSE, method |-> "POST", sets |-> {},
    fields |-> {},
    limit |-> NoLimitRule ]

\* health/api_op_health_status.go:81-177  health.GetHealthStatus
GetHealthStatus_api_op_health_status_81 ==
  [ id |-> "GetHealthStatus_api_op_health_status_81", name |-> "GetHealthStatus", mgr |-> "health",
    ptrReq |-> TRUE, hasToken |-> FALSE,
    nilDeref |-> "never",
    rejects |-> {"nil", "missing", "invalid"},
    valErr |-> [nil |-> "ErrRequestNil", missing |-> "ErrNodesEmpty", invalid |-> "ErrInvalidTimeRange", notoken |-> "none", unlisted |-> "none", emptyId |-> "none"],
    encErr |-> "ErrRequestEncodeFailed", buildErr |-> "ErrRequestBuildFailed", xmitErr |-> "ErrRequestFailed",
    readErr |-> "none", decErr |-> "ErrResponseDecodeFailed",
    read |-> "stream", decodeFrom |-> "response",
    status |-> "range", statusFirst |-> FALSE,
    classify |-> "GetError", resOnErr |-> FALSE,
    result |-> "struct", postCheck |-> FALSE, emptyBodyOk |-> FALSE,
    prints |-> FALSE, method |-> "POST", sets |-> {},
    fields |-> {},
    limit |-> NoLimitRule ]

\* nodes/api_op_add_child_node.go:65-152  nodes.AddChildNode
AddChildNode_api_op_add_child_node_65 ==
  [ id |-> "AddChildNode_api_op_add_child_node_65", name |-> "AddChildNode", mgr |-> "nodes",
    ptrReq |-> TRUE, hasToken |-> FALSE,
    nilDeref |-> "never",
    rejects |-> {"nil", "missing"},
    valErr |-> [nil |-> "ErrAddChildNodeRequestNil", missing |-> "ErrAddChildNodeParentIdRequired", invalid |-> "none", notoken |-> "none", unlisted |-> "none", emptyId |-> "none"],
    encErr |-> "ErrRequestEncodeFailed", buildErr |-> "ErrRequestBuildFailed", xmitErr |-> "ErrRequestFailed",
    readErr |-> "none", decErr |-> "ErrResponseDecodeFailed",
    read |-> "stream", decodeFrom |-> "response",
    status |-> "eq200", statusFirst |-> FALSE,
    classify |-> "GetError", resOnErr |-> FALSE,
    result |-> "none", postCheck |-> FALSE, emptyBodyOk |-> FALSE,
    prints |-> FALSE, method |-> "POST", sets |-> {},
    fields |-> {},
    limit |-> NoLimitRule ]

\* nodes/api_op_add_child_node.go:195-268  nodes.ClearAllChildNodes
ClearAllChildNodes_api_op_add_child_node_195 ==
  [ id |-> "ClearAllChildNodes_api_op_add_child_node_195", name |-> "ClearAllChildNodes", mgr |-> "nodes",
    ptrReq |-> TRUE, hasToken |-> FALSE,
    nilDeref |-> "never",
    rejects |-> {"nil", "missing"},
    valErr |-> [nil |-> "none", missing |-> "none", invalid |-> "none", notoken |-> "none", unlisted |-> "none", emptyId |-> "none"],
    encErr |-> "none", buildErr |-> "none", xmitErr |-> "none",
    readErr |-> "none", decErr |-> "none",
    read |-> "stream", decodeFrom |-> "response",
    status |-> "eq200", statusFirst |-> FALSE,
    classify |-> "fmt", resOnErr |-> FALSE,
    result |-> "none", postCheck |-> FALSE, emptyBodyOk |-> FALSE,
    prints |-> FALSE, method |-> "POST", sets |-> {"Accept", "Content-Type"},
    fields |-> {},
    limit |-> NoLimitRule ]

\* nodes/api_op_clear_all_child_nodes.go:49-128  nodes.ClearChildNodes
ClearChildNodes_api_op_clear_all_child_nodes_49 ==
  [ id |-> "ClearChildNodes_api_op_clear_all_child_nodes_49", name |-> "ClearChildNodes", mgr |-> "nodes",
    ptrReq |-> TRUE, hasToken |-> FALSE,
    nilDeref |-> "never",
    rejects |-> {"nil", "missing"},
    valErr |-> [nil |-> "ErrClearChildNodesRequestNil", missing |-> "ErrClearChildNodesParentIDRequired", invalid |-> "none", notoken |-> "none", unlisted |-> "none", emptyId |-> "none"],
    encErr |-> "ErrRequestEncodeFailed", buildErr |-> "ErrRequestBuildFailed", xmitErr |-> "ErrRequestFailed",
    readErr |-> "ErrResponseReadFailed", decErr |-> "ErrResponseDecodeFailed",
    read |-> "ReadAll", decodeFrom |-> "response",
    status |-> "none", statusFirst |-> FALSE,
    classify |-> "GetError", resOnErr |-> FALSE,
    result |-> "none", postCheck |-> FALSE, emptyBodyOk |-> FALSE,
    prints |-> FALSE, method |-> "POST", sets |-> {},
    fields |-> {},
    limit |-> NoLimitRule ]

\* nodes/api_op_create_node.go:58-136  nodes.CreateNode
CreateNode_api_op_create_node_58 ==
  [ id |-> "CreateNode_api_op_create_node_58", name |-> "CreateNode", mgr |-> "nodes",
    ptrReq |-> TRUE, hasToken |-> FALSE,
    nilDeref |-> "never",
    rejects |-> {"nil"},
    valErr |-> [nil |-> "ErrInputRequired", missing |-> "none", invalid |-> "none", notoken |-> "none", unlisted |-> "none", emptyId |-> "none"],
    encErr |-> "ErrRequestEncodeFailed", buildErr |-> "ErrRequestBuildFailed", xmitErr |-> "ErrRequestFailed",
    readErr |-> "ErrResponseReadFailed", decErr |-> "ErrResponseDecodeFailed",
    read |-> "ReadAll", decodeFrom |-> "response",
    status |-> "none", statusFirst |-> FALSE,
    classify |-> "GetError", resOnErr |-> FALSE,
    result |-> "struct", postCheck |-> FALSE, emptyBodyOk |-> FALSE,
    prints |-> FALSE, method |-> "POST", sets |-> {},
    fields |-> {},
    limit |-> NoLimitRule ]

\* nodes/api_op_delete_node.go:44-123  nodes.DeleteNode
DeleteNode_api_op_delete_node_44 ==
  [ id |-> "DeleteNode_api_op_delete_node_44", name |-> "DeleteNode", mgr |-> "nodes",
    ptrReq |-> TRUE, hasToken |-> FALSE,
    nilDeref |-> "never",
    rejects |-> {"nil", "missing"},
    valErr |-> [nil |-> "ErrDeleteNodeRequestNil", missing |-> "ErrDeleteNodeIDRequired", invalid |-> "none", notoken |-> "none", unlisted |-> "none", emptyId |-> "none"],
    encErr |-> "ErrRequestEncodeFailed", buildErr |-> "ErrRequestBuildFailed", xmitErr |-> "ErrRequestFailed",
    readErr |-> "ErrResponseReadFailed", decErr |-> "ErrResponseDecodeFailed",
    read |-> "ReadAll", decodeFrom |-> "response",
    status |-> "none", statusFirst |-> FALSE,
    classify |-> "GetError", resOnErr |-> FALSE,
    result |-> "none", postCheck |-> FALSE, emptyBodyOk |-> FALSE,
    prints |-> FALSE, method |-> "POST", sets |-> {},
    fields |-> {},
    limit |-> NoLimitRule ]

\* nodes/api_op_get_connection_key.go:49-129  nodes.GetConnectionKey
GetConnectionKey_api_op_get_connection_key_49 ==
  [ id |-> "GetConnectionKey_api_op_get_connection_key_49", name |-> "GetConnectionKey", mgr |-> "nodes",
    ptrReq |-> TRUE, hasToken |-> FALSE,
    nilDeref |-> "never",
    rejects |-> {"nil", "missing"},
    valErr |-> [nil |-> "ErrGetConnectionKeyRequestNil", missing |-> "ErrGetConnectionKeyNodeIDRequired", invalid |-> "none", notoken |-> "none", unlisted |-> "none", emptyId |-> "none"],
    encErr |-> "ErrRequestEncodeFailed", buildErr |-> "ErrRequestBuildFailed", xmitErr |-> "ErrRequestFailed",
    readErr |-> "ErrResponseReadFailed", decErr |-> "ErrResponseDecodeFailed",
    read |-> "ReadAll", decodeFrom |-> "response",
    status |-> "none", statusFirst |-> FALSE,
    classify |-> "GetError", resOnErr |-> FALSE,
    result |-> "payload", postCheck |-> FALSE, emptyBodyOk |-> FALSE,
    prints |-> FALSE, method |-> "POST", sets |-> {},
    fields |-> {},
    limit |-> NoLimitRule ]

\* nodes/api_op_get_list_nodes.go:98-191  nodes.GetNodeList
GetNodeList_api_op_get_list_nodes_98 ==
  [ id |-> "GetNodeList_api_op_get_list_nodes_98", name |-> "GetNodeList", mgr |-> "nodes",
    ptrReq |-> TRUE, hasToken |-> FALSE,
    nilDeref |-> "never",
    rejects |-> {"nil", "invalid"},
    valErr |-> [nil |-> "ErrNodeListRequestNil", missing |-> "none", invalid |-> "ErrNodeListInvalidOrder", notoken |-> "none", unlisted |-> "none", emptyId |-> "none"],
    encErr |-> "ErrRequestEncodeFailed", buildErr |-> "ErrRequestBuildFailed", xmitErr |-> "ErrRequestFailed",
    readErr |-> "ErrResponseReadFailed", decErr |-> "ErrResponseDecodeFailed",
    read |-> "ReadAll", decodeFrom |-> "response",
    status |-> "none", statusFirst |-> FALSE,
    classify |-> "GetError", resOnErr |-> FALSE,
    result |-> "struct", postCheck |-> FALSE, emptyBodyOk |-> FALSE,
    prints |-> FALSE, method |-> "POST", sets |-> {},
    fields |-> {},
    limit |-> [has |-> TRUE, reject |-> "outside", dflt |-> "none", lo |-> 1, hi |-> 1000, to |-> 0, inPlace |-> FALSE, err |-> "ErrNodeListInvalidLimit"] ]

\* nodes/api_op_get_list_nodes.go:247-319  nodes.GetConnectionKey
GetConnectionKey_api_op_get_list_nodes_247 ==
  [ id |-> "GetConnectionKey_api_op_get_list_nodes_247", name |-> "GetConnectionKey", mgr |-> "nodes",
    ptrReq |-> TRUE, hasToken |-> FALSE,
    nilDeref |-> "never",
    rejects |-> {"nil", "missing"},
    valErr |-> [nil |-> "ErrGetConnectionKeyRequestNil", missing |-> "ErrGetConnectionKeyNodeIDRequired", invalid |-> "none", notoken |-> "none", unlisted |-> "none", emptyId |-> "none"],
    encErr |-> "ErrRequestEncodeFailed", buildErr |-> "ErrRequestBuildFailed", xmitErr |-> "ErrRequestFailed",
    readErr |-> "none", decErr |-> "ErrResponseDecodeFailed",
    read |-> "stream", decodeFrom |-> "response",
    status |-> "eq200", statusFirst |-> FALSE,
    classify |-> "GetError", resOnErr |-> FALSE,
    result |-> "payload", postCheck |-> FALSE, emptyBodyOk |-> FALSE,
    prints |-> FALSE, method |-> "POST", sets |-> {},
    fields |-> {},
    limit |-> NoLimitRule ]

\* nodes/api_op_get_node_details.go:55-122  nodes.GetNodeDetails
GetNodeDetails_api_op_get_node_details_55 ==
  [ id |-> "GetNodeDetails_api_op_get_node_details_55", name |-> "GetNodeDetails", mgr |-> "nodes",
    ptrReq |-> TRUE, hasToken |-> FALSE,
    nilDeref |-> "never",
    rejects |-> {"nil", "missing"},
    valErr |-> [nil |-> "ErrNodeListRequestNil", missing |-> "ErrNodeListRequestNil", invalid |-> "none", notoken |-> "none", unlisted |-> "none", emptyId |-> "none"],
    encErr |-> "ErrRequestEncodeFailed", buildErr |-> "ErrRequestBuildFailed", xmitErr |-> "ErrRequestFailed",
    readErr |-> "none", decErr |-> "ErrResponseDecodeFailed",
    read |-> "stream", decodeFrom |-> "response",
    status |-> "eq200", statusFirst |-> FALSE,
    classify |-> "GetError", resOnErr |-> FALSE,
    result |-> "payload", postCheck |-> FALSE, emptyBodyOk |-> FALSE,
    prints |-> FALSE, method |-> "POST", sets |-> {},
    fields |-> {},
    limit |-> NoLimitRule ]

\* nodes/api_op_list_all_child_nodes.go:84-171  nodes.ListChildNodes
ListChildNodes_api_op_list_all_child_nodes_84 ==
  [ id |-> "ListChildNodes_api_op_list_all_child_nodes_84", name |-> "ListChildNodes", mgr |-> "nodes",
    ptrReq |-> TRUE, hasToken |-> FALSE,
    nilDeref |-> "never",
    rejects |-> {"nil", "missing"},
    valErr |-> [nil |-> "ErrListChildNodesRequestNil", missing |-> "ErrListChildNodesParentIDRequired", invalid |-> "none", notoken |-> "none", unlisted |-> "none", emptyId |-> "none"],
    encErr |-> "ErrRequestEncodeFailed", buildErr |-> "ErrRequestBuildFailed", xmitErr |-> "ErrRequestFailed",
    readErr |-> "none", decErr |-> "ErrResponseDecodeFailed",
    read |-> "stream", decodeFrom |-> "response",
    status |-> "eq200", statusFirst |-> FALSE,
    classify |-> "GetError", resOnErr |-> FALSE,
    result |-> "struct", postCheck |-> FALSE, emptyBodyOk |-> FALSE,
    prints |-> FALSE, method |-> "POST", sets |-> {},
    fields |-> {},
    limit |-> [has |-> TRUE, reject |-> "none", dflt |-> "outside", lo |-> 1, hi |-> 1000, to |-> 100, inPlace |-> TRUE, err |-> "none"] ]

\* nodes/api_op_list_all_child_nodes.go:229-301  nodes.GetNodeDetails
GetNodeDetails_api_op_list_all_child_nodes_229 ==
  [ id |-> "GetNodeDetails_api_op_list_all_child_nodes_229", name |-> "GetNodeDetails", mgr |-> "nodes",
    ptrReq |-> TRUE, hasToken |-> FALSE,
    nilDeref |-> "never",
    rejects |-> {"nil", "missing"},
    valErr |-> [nil |-> "ErrNodeDetailsRequestNil", missing |-> "ErrNodeDetailsRequestNil", invalid |-> "none", notoken |-> "none", unlisted |-> "none", emptyId |-> "none"],
    encErr |-> "ErrRequestEncodeFailed", buildErr |-> "ErrRequestBuildFailed", xmitErr |-> "ErrRequestFailed",
    readErr |-> "ErrResponseReadFailed", decErr |-> "ErrResponseDecodeFailed",
    read |-> "ReadAll", decodeFrom |-> "response",
    status |-> "none", statusFirst |-> FALSE,
    classify |-> "GetError", resOnErr |-> FALSE,
    result |-> "payload", postCheck |-> FALSE, emptyBodyOk |-> FALSE,
    prints |-> FALSE, method |-> "POST", sets |-> {},
    fields |-> {},
    limit |-> NoLimitRule ]

\* nodes/api_op_remove_child_node.go:57-143  nodes.RemoveChildNode
RemoveChildNode_api_op_remove_child_node_57 ==
  [ id |-> "RemoveChildNode_api_op_remove_child_node_57", name |-> "RemoveChildNode", mgr |-> "nodes",
    ptrReq |-> TRUE, hasToken |-> FALSE,
    nilDeref |-> "never",
    rejects |-> {"nil", "missing"},
    valErr |-> [nil |-> "ErrRemoveChildNodeRequestNil", missing |-> "ErrRemoveChildNodeParentIDRequired", invalid |-> "none", notoken |-> "none", unlisted |-> "none", emptyId |-> "none"],
    encErr |-> "ErrRequestEncodeFailed", buildErr |-> "ErrRequestBuildFailed", xmitErr |-> "ErrRequestFailed",
    readErr |-> "none", decErr |-> "ErrResponseDecodeFailed",
    read |-> "stream", decodeFrom |-> "response",
    status |-> "eq200", statusFirst |-> FALSE,
    classify |-> "GetError", resOnErr |-> FALSE,
    result |-> "none", postCheck |-> FALSE, emptyBodyOk |-> FALSE,
    prints |-> FALSE, method |-> "POST", sets |-> {},
    fields |-> {},
    limit |-> NoLimitRule ]

\* nodes/api_op_update_node_details.go:80-192  nodes.UpdateNode
UpdateNode_api_op_update_node_details_80 ==
  [ id |-> "UpdateNode_api_op_update_node_details_80", name |-> "UpdateNode", mgr |-> "nodes",
    ptrReq |-> TRUE, hasToken |-> FALSE,
    nilDeref |-> "never",
    rejects |-> {"nil", "missing", "invalid"},
    valErr |-> [nil |-> "ErrUpdateNodeRequestNil", missing |-> "ErrUpdateNodeIDRequired", invalid |-> "none", notoken |-> "none", unlisted |-> "none", emptyId |-> "none"],
    encErr |-> "ErrRequestEncodeFailed", buildErr |-> "ErrRequestBuildFailed", xmitErr |-> "ErrRequestFailed",
    readErr |-> "ErrResponseReadFailed", decErr |-> "ErrResponseDecodeFailed",
    read |-> "ReadAll", decodeFrom |-> "response",
    status |-> "none", statusFirst |-> FALSE,
    classify |-> "GetError", resOnErr |-> FALSE,
    result |-> "none", postCheck |-> FALSE, emptyBodyOk |-> FALSE,
    prints |-> FALSE, method |-> "POST", sets |-> {},
    fields |-> {},
    limit |-> NoLimitRule ]

\* nodes/api_op_update_node_details.go:272-380  nodes.UpdateNode
UpdateNode_api_op_update_node_details_272 ==
  [ id |-> "UpdateNode_api_op_update_node_details_272", name |-> "UpdateNode", mgr |-> "nodes",
    ptrReq |-> TRUE, hasToken |-> FALSE,
    nilDeref |-> "never",
    rejects |-> {"nil", "missing", "invalid"},
    valErr |-> [nil |-> "ErrUpdateNodeRequestNil", missing |-> "ErrUpdateNodeIDRequired", invalid |-> "none", notoken |-> "none", unlisted |-> "none", emptyId |-> "none"],
    encErr |-> "ErrRequestEncodeFailed", buildErr |-> "ErrRequestBuildFailed", xmitErr |-> "ErrRequestFailed",
    readErr |-> "none", decErr |-> "ErrResponseDecodeFailed",
    read |-> "stream", decodeFrom |-> "response",
    status |-> "eq200", statusFirst |-> FALSE,
    classify |-> "GetError", resOnErr |-> FALSE,
    result |-> "none", postCheck |-> FALSE, emptyBodyOk |-> FALSE,
    prints |-> FALSE, method |-> "POST", sets |-> {},
    fields |-> {},
    limit |-> NoLimitRule ]

\* nodes/create_node.go:28-75  nodes.CreateNode
CreateNode_create_node_28 ==
  [ id |-> "CreateNode_create_node_28", name |-> "CreateNode", mgr |-> "nodes",
    ptrReq |-> TRUE, hasToken |-> FALSE,
    nilDeref |-> "result",
    rejects |-> {},
    valErr |-> [nil |-> "none", missing |-> "none", invalid |-> "none", notoken |-> "none", unlisted |-> "none", emptyId |-> "none"],
    encErr |-> "none", buildErr |-> "none", xmitErr |-> "none",
    readErr |-> "none", decErr |-> "none",
    read |-> "stream", decodeFrom |-> "response",
    status |-> "eq200", statusFirst |-> FALSE,
    classify |-> "fmt", resOnErr |-> FALSE,
    result |-> "struct", postCheck |-> FALSE, emptyBodyOk |-> FALSE,
    prints |-> FALSE, method |-> "POST", sets |-> {"Accept", "Content-Type"},
    fields |-> {},
    limit |-> NoLimitRule ]

\* nodes/delete_node.go:26-73  nodes.DeleteNode
DeleteNode_delete_node_26 ==
  [ id |-> "DeleteNode_delete_node_26", name |-> "DeleteNode", mgr |-> "nodes",
    ptrReq |-> TRUE, hasToken |-> FALSE,
    nilDeref |-> "never",
    rejects |-> {"nil", "missing"},
    valErr |-> [nil |-> "none", missing |-> "none", invalid |-> "none", notoken |-> "none", unlisted |-> "none", emptyId |-> "none"],
    encErr |-> "none", buildErr |-> "none", xmitErr |-> "none",
    readErr |-> "none", decErr |-> "none",
    read |-> "stream", decodeFrom |-> "response",
    status |-> "eq200", statusFirst |-> FALSE,
    classify |-> "fmt", resOnErr |-> FALSE,
    result |-> "none", postCheck |-> FALSE, emptyBodyOk |-> FALSE,
    prints |-> FALSE, method |-> "POST", sets |-> {"Accept", "Content-Type"},
    fields |-> {},
    limit |-> NoLimitRule ]

\* nodes/delete_node.go:121-199  nodes.GetConnectionKey
GetConnectionKey_delete_node_121 ==
  [ id |-> "GetConnectionKey_delete_node_121", name |-> "GetConnectionKey", mgr |-> "nodes",
    ptrReq |-> TRUE, hasToken |-> FALSE,
    nilDeref |-> "never",
    rejects |-> {"nil", "missing"},
    valErr |-> [nil |-> "none", missing |-> "none", invalid |-> "none", notoken |-> "none", unlisted |-> "none", emptyId |-> "none"],
    encErr |-> "none", buildErr |-> "none", xmitErr |-> "none",
    readErr |-> "none", decErr |-> "none",
    read |-> "stream", decodeFrom |-> "response",
    status |-> "eq200", statusFirst |-> FALSE,
    classify |-> "fmt", resOnErr |-> FALSE,
    result |-> "payload", postCheck |-> TRUE, emptyBodyOk |-> FALSE,
    prints |-> FALSE, method |-> "POST", sets |-> {"Accept", "Content-Type"},
    fields |-> {},
    limit |-> NoLimitRule ]

\* nodes/get_node_details.go:65-151  nodes.GetNodeDetails
GetNodeDetails_get_node_details_65 ==
  [ id |-> "GetNodeDetails_get_node_details_65", name |-> "GetNodeDetails", mgr |-> "nodes",
    ptrReq |-> FALSE, hasToken |-> FALSE,
    nilDeref |-> "never",
    rejects |-> {"missing"},
    valErr |-> [nil |-> "none", missing |-> "none", invalid |-> "none", notoken |-> "none", unlisted |-> "none", emptyId |-> "none"],
    encErr |-> "none", buildErr |-> "none", xmitErr |-> "none",
    readErr |-> "none", decErr |-> "none",
    read |-> "stream", decodeFrom |-> "response",
    status |-> "eq200", statusFirst |-> FALSE,
    classify |-> "fmt", resOnErr |-> FALSE,
    result |-> "struct", postCheck |-> TRUE, emptyBodyOk |-> FALSE,
    prints |-> FALSE, method |-> "POST", sets |-> {"Accept", "Content-Type"},
    fields |-> {},
    limit |-> NoLimitRule ]

\* nodes/get_node_details.go:195-276  nodes.UpdateNodeDetails
UpdateNodeDetails_get_node_details_195 ==
  [ id |-> "UpdateNodeDetails_get_node_details_195", name |-> "UpdateNodeDetails", mgr |-> "nodes",
    ptrReq |-> TRUE, hasToken |-> FALSE,
    nilDeref |-> "never",
    rejects |-> {"nil", "missing", "invalid"},
    valErr |-> [nil |-> "none", missing |-> "none", invalid |-> "none", notoken |-> "none", unlisted |-> "none", emptyId |-> "none"],
    encErr |-> "none", buildErr |-> "none", xmitErr |-> "none",
    readErr |-> "none", decErr |-> "none",
    read |-> "ReadAll", decodeFrom |-> "response",
    status |-> "eq200", statusFirst |-> FALSE,
    classify |-> "fmt", resOnErr |-> FALSE,
    result |-> "none", postCheck |-> FALSE, emptyBodyOk |-> TRUE,
    prints |-> FALSE, method |-> "POST", sets |-> {"Accept", "Content-Type"},
    fields |-> {},
    limit |-> NoLimitRule ]

\* nodes/remove_child_node.go:25-75  nodes.RemoveChildNode
RemoveChildNode_remove_child_node_25 ==
  [ id |-> "RemoveChildNode_remove_child_node_25", name |-> "RemoveChildNode", mgr |-> "nodes",
    ptrReq |-> TRUE, hasToken |-> FALSE,
    nilDeref |-> "never",
    rejects |-> {"nil", "missing"},
    valErr |-> [nil |-> "none", missing |-> "none", invalid |-> "none", notoken |-> "none", unlisted |-> "none", emptyId |-> "none"],
    encErr |-> "none", buildErr |-> "none", xmitErr |-> "none",
    readErr |-> "none", decErr |-> "none",
    read |-> "stream", decodeFrom |-> "response",
    status |-> "eq200", statusFirst |-> FALSE,
    classify |-> "fmt", resOnErr |-> FALSE,
    result |-> "none", postCheck |-> FALSE, emptyBodyOk |-> FALSE,
    prints |-> FALSE, method |-> "POST", sets |-> {"Accept", "Content-Type"},
    fields |-> {},
    limit |-> NoLimitRule ]

\* unnamed/part_000:116-218  variable.CreateVariable
CreateVariable_part_000_116 ==
  [ id |-> "CreateVariable_part_000_116", name |-> "CreateVariable", mgr |-> "variable",
    ptrReq |-> TRUE, hasToken |-> FALSE,
    nilDeref |-> "never",
    rejects |-> {"nil", "missing", "invalid"},
    valErr |-> [nil |-> "ErrInputRequired", missing |-> "ErrVariableNameRequired", invalid |-> "ErrVariableTypeRequired", notoken |-> "none", unlisted |-> "none", emptyId |-> "none"],
    encErr |-> "ErrRequestEncodeFailed", buildErr |-> "ErrRequestBuildFailed", xmitErr |-> "ErrRequestFailed",
    readErr |-> "ErrResponseReadFailed", decErr |-> "ErrResponseDecodeFailed",
    read |-> "ReadAll", decodeFrom |-> "response",
    status |-> "range", statusFirst |-> FALSE,
    classify |-> "GetError", resOnErr |-> FALSE,
    result |-> "struct", postCheck |-> FALSE, emptyBodyOk |-> FALSE,
    prints |-> FALSE, method |-> "POST", sets |-> {"Accept", "Content-Type"},
    fields |-> {},
    limit |-> NoLimitRule ]

\* unnamed/part_001:80-150  variable.CreateVariable
CreateVariable_part_001_80 ==
  [ id |-> "CreateVariable_part_001_80", name |-> "CreateVariable", mgr |-> "variable",
    ptrReq |-> TRUE, hasToken |-> FALSE,
    nilDeref |-> "validate",
    rejects |-> {"missing", "invalid"},
    valErr |-> [nil |-> "none", missing |-> "none", invalid |-> "none", notoken |-> "none", unlisted |-> "none", emptyId |-> "none"],
    encErr |-> "none", buildErr |-> "none", xmitErr |-> "none",
    readErr |-> "none", decErr |-> "none",
    read |-> "ReadAll", decodeFrom |-> "response",
    status |-> "range", statusFirst |-> TRUE,
    classify |-> "fmt", resOnErr |-> FALSE,
    result |-> "struct", postCheck |-> FALSE, emptyBodyOk |-> FALSE,
    prints |-> FALSE, method |-> "POST", sets |-> {"Accept", "Content-Type"},
    fields |-> {},
    limit |-> NoLimitRule ]

\* unnamed/part_002:31-88  variable.DeleteVariable
DeleteVariable_part_002_31 ==
  [ id |-> "DeleteVariable_part_002_31", name |-> "DeleteVariable", mgr |-> "variable",
    ptrReq |-> FALSE, hasToken |-> FALSE,
    nilDeref |-> "never",
    rejects |-> {"missing"},
    valErr |-> [nil |-> "none", missing |-> "none", invalid |-> "none", notoken |-> "none", unlisted |-> "none", emptyId |-> "none"],
    encErr |-> "none", buildErr |-> "none", xmitErr |-> "none",
    readErr |-> "none", decErr |-> "none",
    read |-> "ReadAll", decodeFrom |-> "response",
    status |-> "range", statusFirst |-> TRUE,
    classify |-> "fmt", resOnErr |-> FALSE,
    result |-> "none", postCheck |-> FALSE, emptyBodyOk |-> FALSE,
    prints |-> FALSE, method |-> "POST", sets |-> {"Accept", "Content-Type"},
    fields |-> {},
    limit |-> NoLimitRule ]

\* unnamed/part_004:99-200  valuestore.GetValue
GetValue_part_004_99 ==
  [ id |-> "GetValue_part_004_99", name |-> "GetValue", mgr |-> "valuestore",
    ptrReq |-> TRUE, hasToken |-> FALSE,
    nilDeref |-> "never",
    rejects |-> {"nil", "missing", "invalid", "emptyId"},
    valErr |-> [nil |-> "ErrInputRequired", missing |-> "ErrValueNamespaceIdRequired", invalid |-> "ErrInvalidNamespaceScope", notoken |-> "none", unlisted |-> "none", emptyId |-> "ErrValueNamespaceIdRequired"],
    encErr |-> "ErrRequestEncodeFailed", buildErr |-> "ErrRequestBuildFailed", xmitErr |-> "ErrRequestFailed",
    readErr |-> "ErrResponseReadFailed", decErr |-> "ErrResponseDecodeFailed",
    read |-> "ReadAll", decodeFrom |-> "response",
    status |-> "range", statusFirst |-> FALSE,
    classify |-> "GetError", resOnErr |-> FALSE,
    result |-> "struct", postCheck |-> FALSE, emptyBodyOk |-> FALSE,
    prints |-> FALSE, method |-> "POST", sets |-> {"Accept", "Content-Type"},
    fields |-> {"emptyId"},
    limit |-> NoLimitRule ]

\* unnamed/part_005:104-215  valuestore.SetValue
SetValue_part_005_104 ==
  [ id |-> "SetValue_part_005_104", name |-> "SetValue", mgr |-> "valuestore",
    ptrReq |-> TRUE, hasToken |-> FALSE,
    nilDeref |-> "never",
    rejects |-> {"nil", "missing", "invalid", "emptyId"},
    valErr |-> [nil |-> "ErrInputRequired", missing |-> "ErrNamespaceScopeRequired", invalid |-> "ErrInvalidNamespaceScope", notoken |-> "none", unlisted |-> "none", emptyId |-> "ErrValueNamespaceIdRequired"],
    encErr |-> "ErrRequestEncodeFailed", buildErr |-> "ErrRequestBuildFailed", xmitErr |-> "ErrRequestFailed",
    readErr |-> "ErrResponseReadFailed", decErr |-> "ErrResponseDecodeFailed",
    read |-> "ReadAll", decodeFrom |-> "response",
    status |-> "none", statusFirst |-> FALSE,
    classify |-> "GetError", resOnErr |-> FALSE,
    result |-> "none", postCheck |-> FALSE, emptyBodyOk |-> FALSE,
    prints |-> FALSE, method |-> "POST", sets |-> {},
    fields |-> {"emptyId"},
    limit |-> NoLimitRule ]

\* unnamed/part_008:51-123  nodes.ClearChildNodes
ClearChildNodes_part_008_51 ==
  [ id |-> "ClearChildNodes_part_008_51", name |-> "ClearChildNodes", mgr |-> "nodes",
    ptrReq |-> TRUE, hasToken |-> FALSE,
    nilDeref |-> "never",
    rejects |-> {"nil", "missing"},
    valErr |-> [nil |-> "ErrClearChildNodesRequestNil", missing |-> "ErrClearChildNodesParentIDRequired", invalid |-> "none", notoken |-> "none", unlisted |-> "none", emptyId |-> "none"],
    encErr |-> "ErrRequestEncodeFailed", buildErr |-> "ErrRequestBuildFailed", xmitErr |-> "ErrRequestFailed",
    readErr |-> "none", decErr |-> "ErrResponseDecodeFailed",
    read |-> "stream", decodeFrom |-> "response",
    status |-> "eq200", statusFirst |-> FALSE,
    classify |-> "GetError", resOnErr |-> FALSE,
    result |-> "none", postCheck |-> FALSE, emptyBodyOk |-> FALSE,
    prints |-> FALSE, method |-> "POST", sets |-> {},
    fields |-> {},
    limit |-> NoLimitRule ]

\* unnamed/part_009:48-116  nodes.GetConnectionKey
GetConnectionKey_part_009_48 ==
  [ id |-> "GetConnectionKey_part_009_48", name |-> "GetConnectionKey", mgr |-> "nodes",
    ptrReq |-> TRUE, hasToken |-> FALSE,
    nilDeref |-> "never",
    rejects |-> {"nil", "missing"},
    valErr |-> [nil |-> "ErrGetConnectionKeyRequestNil", missing |-> "ErrGetConnectionKeyNodeIDRequired", invalid |-> "none", notoken |-> "none", unlisted |-> "none", emptyId |-> "none"],
    encErr |-> "ErrRequestEncodeFailed", buildErr |-> "ErrRequestBuildFailed", xmitErr |-> "ErrRequestFailed",
    readErr |-> "none", decErr |-> "ErrResponseDecodeFailed",
    read |-> "stream", decodeFrom |-> "response",
    status |-> "eq200", statusFirst |-> FALSE,
    classify |-> "GetError", resOnErr |-> FALSE,
    result |-> "payload", postCheck |-> FALSE, emptyBodyOk |-> FALSE,
    prints |-> FALSE, method |-> "POST", sets |-> {},
    fields |-> {},
    limit |-> NoLimitRule ]

\* unnamed/part_010:30-84  nodes.ListAllChildNodes
ListAllChildNodes_part_010_30 ==
  [ id |-> "ListAllChildNodes_part_010_30", name |-> "ListAllChildNodes", mgr |-> "nodes",
    ptrReq |-> TRUE, hasToken |-> FALSE,
    nilDeref |-> "never",
    rejects |-> {"nil", "missing"},
    valErr |-> [nil |-> "none", missing |-> "none", invalid |-> "none", notoken |-> "none", unlisted |-> "none", emptyId |-> "none"],
    encErr |-> "none", buildErr |-> "none", xmitErr |-> "none",
    readErr |-> "none", decErr |-> "none",
    read |-> "stream", decodeFrom |-> "response",
    status |-> "eq200", statusFirst |-> FALSE,
    classify |-> "fmt", resOnErr |-> FALSE,
    result |-> "struct", postCheck |-> FALSE, emptyBodyOk |-> FALSE,
    prints |-> FALSE, method |-> "POST", sets |-> {"Accept", "Content-Type"},
    fields |-> {},
    limit |-> [has |-> TRUE, reject |-> "none", dflt |-> "none", lo |-> 0, hi |-> 0, to |-> 0, inPlace |-> FALSE, err |-> "none"] ]

\* unnamed/part_010:136-220  nodes.RemoveChildNode
RemoveChildNode_part_010_136 ==
  [ id |-> "RemoveChildNode_part_010_136", name |-> "RemoveChildNode", mgr |-> "nodes",
    ptrReq |-> TRUE, hasToken |-> FALSE,
    nilDeref |-> "never",
    rejects |-> {"nil", "missing"},
    valErr |-> [nil |-> "ErrRemoveChildNodeRequestNil", missing |-> "ErrRemoveChildNodeParentIDRequired", invalid |-> "none", notoken |-> "none", unlisted |-> "none", emptyId |-> "none"],
    encErr |-> "ErrRequestEncodeFailed", buildErr |-> "ErrRequestBuildFailed", xmitErr |-> "ErrRequestFailed",
    readErr |-> "ErrResponseReadFailed", decErr |-> "ErrResponseDecodeFailed",
    read |-> "ReadAll", decodeFrom |-> "response",
    status |-> "none", statusFirst |-> FALSE,
    classify |-> "GetError", resOnErr |-> FALSE,
    result |-> "none", postCheck |-> FALSE, emptyBodyOk |-> FALSE,
    prints |-> FALSE, method |-> "POST", sets |-> {},
    fields |-> {},
    limit |-> NoLimitRule ]

\* unnamed/part_011:50-130  nodes.DeleteNode
DeleteNode_part_011_50 ==
  [ id |-> "DeleteNode_part_011_50", name |-> "DeleteNode", mgr |-> "nodes",
    ptrReq |-> TRUE, hasToken |-> FALSE,
    nilDeref |-> "never",
    rejects |-> {"nil", "missing"},
    valErr |-> [nil |-> "ErrDeleteNodeRequestNil", missing |-> "ErrDeleteNodeIDRequired", invalid |-> "none", notoken |-> "none", unlisted |-> "none", emptyId |-> "none"],
    encErr |-> "ErrRequestEncodeFailed", buildErr |-> "ErrRequestBuildFailed", xmitErr |-> "ErrRequestFailed",
    readErr |-> "none", decErr |-> "ErrResponseDecodeFailed",
    read |-> "stream", decodeFrom |-> "response",
    status |-> "eq200", statusFirst |-> FALSE,
    classify |-> "GetError", resOnErr |-> FALSE,
    result |-> "none", postCheck |-> FALSE, emptyBodyOk |-> FALSE,
    prints |-> TRUE, method |-> "POST", sets |-> {},
    fields |-> {},
    limit |-> NoLimitRule ]

\* unnamed/part_013:49-125  nodes.AuthorizeDevice
AuthorizeDevice_part_013_49 ==
  [ id |-> "AuthorizeDevice_part_013_49", name |-> "AuthorizeDevice", mgr |-> "nodes",
    ptrReq |-> TRUE, hasToken |-> FALSE,
    nilDeref |-> "never",
    rejects |-> {"nil", "missing"},
    valErr |-> [nil |-> "none", missing |-> "none", invalid |-> "none", notoken |-> "none", unlisted |-> "none", emptyId |-> "none"],
    encErr |-> "none", buildErr |-> "none", xmitErr |-> "none",
    readErr |-> "none", decErr |-> "none",
    read |-> "stream", decodeFrom |-> "response",
    status |-> "eq200", statusFirst |-> FALSE,
    classify |-> "fmt", resOnErr |-> FALSE,
    result |-> "none", postCheck |-> FALSE, emptyBodyOk |-> FALSE,
    prints |-> FALSE, method |-> "POST", sets |-> {"Accept", "Content-Type"},
    fields |-> {},
    limit |-> NoLimitRule ]

\* unnamed/part_014:32-89  nodes.AddChildNode
AddChildNode_part_014_32 ==
  [ id |-> "AddChildNode_part_014_32", name |-> "AddChildNode", mgr |-> "nodes",
    ptrReq |-> TRUE, hasToken |-> FALSE,
    nilDeref |-> "never",
    rejects |-> {"nil", "missing"},
    valErr |-> [nil |-> "none", missing |-> "none", invalid |-> "none", notoken |-> "none", unlisted |-> "none", emptyId |-> "none"],
    encErr |-> "none", buildErr |-> "none", xmitErr |-> "none",
    readErr |-> "none", decErr |-> "none",
    read |-> "stream", decodeFrom |-> "response",
    status |-> "eq200", statusFirst |-> FALSE,
    classify |-> "fmt", resOnErr |-> FALSE,
    result |-> "none", postCheck |-> FALSE, emptyBodyOk |-> FALSE,
    prints |-> FALSE, method |-> "POST", sets |-> {"Accept", "Content-Type"},
    fields |-> {},
    limit |-> NoLimitRule ]

\* unnamed/part_014:152-221  nodes.ListNodes
ListNodes_part_014_152 ==
  [ id |-> "ListNodes_part_014_152", name |-> "ListNodes", mgr |-> "nodes",
    ptrReq |-> TRUE, hasToken |-> FALSE,
    nilDeref |-> "validate",
    rejects |-> {},
    valErr |-> [nil |-> "none", missing |-> "none", invalid |-> "none", notoken |-> "none", unlisted |-> "none", emptyId |-> "none"],
    encErr |-> "none", buildErr |-> "none", xmitErr |-> "none",
    readErr |-> "none", decErr |-> "none",
    read |-> "stream", decodeFrom |-> "response",
    status |-> "eq200", statusFirst |-> FALSE,
    classify |-> "fmt", resOnErr |-> FALSE,
    result |-> "struct", postCheck |-> FALSE, emptyBodyOk |-> FALSE,
    prints |-> FALSE, method |-> "POST", sets |-> {"Accept", "Content-Type"},
    fields |-> {},
    limit |-> [has |-> TRUE, reject |-> "none", dflt |-> "eq0", lo |-> 0, hi |-> 0, to |-> 1000, inPlace |-> TRUE, err |-> "none"] ]

\* unnamed/part_014:279-350  nodes.CreateNode
CreateNode_part_014_279 ==
  [ id |-> "CreateNode_part_014_279", name |-> "CreateNode", mgr |-> "nodes",
    ptrReq |-> TRUE, hasToken |-> FALSE,
    nilDeref |-> "never",
    rejects |-> {"nil"},
    valErr |-> [nil |-> "ErrInputRequired", missing |-> "none", invalid |-> "none", notoken |-> "none", unlisted |-> "none", emptyId |-> "none"],
    encErr |-> "ErrRequestEncodeFailed", buildErr |-> "ErrRequestBuildFailed", xmitErr |-> "ErrRequestFailed",
    readErr |-> "none", decErr |-> "ErrResponseDecodeFailed",
    read |-> "skipped", decodeFrom |-> "request",
    status |-> "none", statusFirst |-> FALSE,
    classify |-> "GetError", resOnErr |-> FALSE,
    result |-> "struct", postCheck |-> FALSE, emptyBodyOk |-> FALSE,
    prints |-> FALSE, method |-> "POST", sets |-> {},
    fields |-> {},
    limit |-> NoLimitRule ]

\* unnamed/part_015:52-132  nodes.AuthorizeDevice
AuthorizeDevice_part_015_52 ==
  [ id |-> "AuthorizeDevice_part_015_52", name |-> "AuthorizeDevice", mgr |-> "nodes",
    ptrReq |-> TRUE, hasToken |-> FALSE,
    nilDeref |-> "never",
    rejects |-> {"nil", "missing"},
    valErr |-> [nil |-> "ErrAuthorizeDeviceRequestNil", missing |-> "ErrAuthorizeDeviceNodeIDRequired", invalid |-> "none", notoken |-> "none", unlisted |-> "none", emptyId |-> "none"],
    encErr |-> "ErrRequestEncodeFailed", buildErr |-> "ErrRequestBuildFailed", xmitErr |-> "ErrRequestFailed",
    readErr |-> "none", decErr |-> "ErrResponseDecodeFailed",
    read |-> "stream", decodeFrom |-> "response",
    status |-> "none", statusFirst |-> FALSE,
    classify |-> "GetError", resOnErr |-> FALSE,
    result |-> "none", postCheck |-> FALSE, emptyBodyOk |-> FALSE,
    prints |-> FALSE, method |-> "POST", sets |-> {},
    fields |-> {},
    limit |-> NoLimitRule ]

\* unnamed/part_015:186-274  nodes.AuthorizeDevice
AuthorizeDevice_part_015_186 ==
  [ id |-> "AuthorizeDevice_part_015_186", name |-> "AuthorizeDevice", mgr |-> "nodes",
    ptrReq |-> TRUE, hasToken |-> FALSE,
    nilDeref |-> "never",
    rejects |-> {"nil", "missing"},
    valErr |-> [nil |-> "ErrAuthorizeDeviceRequestNil", missing |-> "ErrAuthorizeDeviceNodeIDRequired", invalid |-> "none", notoken |-> "none", unlisted |-> "none", emptyId |-> "none"],
    encErr |-> "ErrRequestEncodeFailed", buildErr |-> "ErrRequestBuildFailed", xmitErr |-> "ErrRequestFailed",
    readErr |-> "ErrResponseReadFailed", decErr |-> "ErrResponseDecodeFailed",
    read |-> "ReadAll", decodeFrom |-> "response",
    status |-> "none", statusFirst |-> FALSE,
    classify |-> "GetError", resOnErr |-> FALSE,
    result |-> "none", postCheck |-> FALSE, emptyBodyOk |-> FALSE,
    prints |-> FALSE, method |-> "POST", sets |-> {},
    fields |-> {},
    limit |-> NoLimitRule ]

\* unnamed/part_016:68-166  dataAccess.GetLatestData
GetLatestData_part_016_68 ==
  [ id |-> "GetLatestData_part_016_68", name |-> "GetLatestData", mgr |-> "dataAccess",
    ptrReq |-> TRUE, hasToken |-> FALSE,
    nilDeref |-> "never",
    rejects |-> {"nil", "missing"},
    valErr |-> [nil |-> "ErrRequestNil", missing |-> "ErrVariableRequired", invalid |-> "none", notoken |-> "none", unlisted |-> "none", emptyId |-> "none"],
    encErr |-> "ErrRequestEncodeFailed", buildErr |-> "ErrRequestBuildFailed", xmitErr |-> "ErrRequestFailed",
    readErr |-> "ErrResponseReadFailed", decErr |-> "ErrResponseDecodeFailed",
    read |-> "ReadAll", decodeFrom |-> "response",
    status |-> "none", statusFirst |-> FALSE,
    classify |-> "GetError", resOnErr |-> FALSE,
    result |-> "struct", postCheck |-> FALSE, emptyBodyOk |-> FALSE,
    prints |-> FALSE, method |-> "POST", sets |-> {},
    fields |-> {},
    limit |-> NoLimitRule ]

\* unnamed/part_017:88-192  dataAccess.GetData
GetData_part_017_88 ==
  [ id |-> "GetData_part_017_88", name |-> "GetData", mgr |-> "dataAccess",
    ptrReq |-> TRUE, hasToken |-> FALSE,
    nilDeref |-> "never",
    rejects |-> {"nil", "missing", "invalid"},
    valErr |-> [nil |-> "ErrRequestNil", missing |-> "ErrVariableRequired", invalid |-> "ErrInvalidTimeRange", notoken |-> "none", unlisted |-> "none", emptyId |-> "none"],
    encErr |-> "ErrRequestEncodeFailed", buildErr |-> "ErrRequestBuildFailed", xmitErr |-> "ErrRequestFailed",
    readErr |-> "ErrResponseReadFailed", decErr |-> "ErrResponseDecodeFailed",
    read |-> "ReadAll", decodeFrom |-> "response",
    status |-> "none", statusFirst |-> FALSE,
    classify |-> "GetError", resOnErr |-> FALSE,
    result |-> "struct", postCheck |-> FALSE, emptyBodyOk |-> FALSE,
    prints |-> FALSE, method |-> "POST", sets |-> {},
    fields |-> {},
    limit |-> NoLimitRule ]

\* unnamed/part_017:296-402  dataAccess.GetData
GetData_part_017_296 ==
  [ id |-> "GetData_part_017_296", name |-> "GetData", mgr |-> "dataAccess",
    ptrReq |-> TRUE, hasToken |-> FALSE,
    nilDeref |-> "never",
    rejects |-> {"nil", "missing", "invalid"},
    valErr |-> [nil |-> "ErrRequestNil", missing |-> "ErrVariableRequired", invalid |-> "ErrInvalidTimeRange", notoken |-> "none", unlisted |-> "none", emptyId |-> "none"],
    encErr |-> "ErrRequestEncodeFailed", buildErr |-> "ErrRequestBuildFailed", xmitErr |-> "ErrRequestFailed",
    readErr |-> "none", decErr |-> "ErrResponseDecodeFailed",
    read |-> "stream", decodeFrom |-> "response",
    status |-> "range", statusFirst |-> FALSE,
    classify |-> "GetError", resOnErr |-> FALSE,
    result |-> "struct", postCheck |-> FALSE, emptyBodyOk |-> FALSE,
    prints |-> FALSE, method |-> "POST", sets |-> {},
    fields |-> {},
    limit |-> NoLimitRule ]

\* unnamed/part_017:483-580  dataAccess.GetData
GetData_part_017_483 ==
  [ id |-> "GetData_part_017_483", name |-> "GetData", mgr |-> "dataAccess",
    ptrReq |-> TRUE, hasToken |-> FALSE,
    nilDeref |-> "never",
    rejects |-> {"nil", "missing", "invalid"},
    valErr |-> [nil |-> "ErrRequestNil", missing |-> "ErrVariableRequired", invalid |-> "ErrInvalidTimeRange", notoken |-> "none", unlisted |-> "none", emptyId |-> "none"],
    encErr |-> "ErrRequestEncodeFailed", buildErr |-> "ErrRequestBuildFailed", xmitErr |-> "ErrRequestFailed",
    readErr |-> "none", decErr |-> "ErrResponseDecodeFailed",
    read |-> "stream", decodeFrom |-> "response",
    status |-> "eq200", statusFirst |-> FALSE,
    classify |-> "GetError", resOnErr |-> TRUE,
    result |-> "struct", postCheck |-> FALSE, emptyBodyOk |-> FALSE,
    prints |-> FALSE, method |-> "POST", sets |-> {},
    fields |-> {},
    limit |-> NoLimitRule ]

\* unnamed/part_022:109-226  aggregations.GetAggregationByTime
GetAggregationByTime_part_022_109 ==
  [ id |-> "GetAggregationByTime_part_022_109", name |-> "GetAggregationByTime", mgr |-> "aggregations",
    ptrReq |-> TRUE, hasToken |-> FALSE,
    nilDeref |-> "never",
    rejects |-> {"nil", "missing", "invalid"},
    valErr |-> [nil |-> "ErrRequestNil", missing |-> "ErrVariableRequired", invalid |-> "ErrInvalidTimeRange", notoken |-> "none", unlisted |-> "none", emptyId |-> "none"],
    encErr |-> "ErrRequestEncodeFailed", buildErr |-> "ErrRequestBuildFailed", xmitErr |-> "ErrRequestFailed",
    readErr |-> "none", decErr |-> "ErrResponseDecodeFailed",
    read |-> "stream", decodeFrom |-> "response",
    status |-> "range", statusFirst |-> FALSE,
    classify |-> "GetError", resOnErr |-> FALSE,
    result |-> "struct", postCheck |-> FALSE, emptyBodyOk |-> FALSE,
    prints |-> FALSE, method |-> "POST", sets |-> {},
    fields |-> {"unlisted"},
    limit |-> NoLimitRule ]

\* unnamed/part_025:80-187  commands.SendCommand
SendCommand_part_025_80 ==
  [ id |-> "SendCommand_part_025_80", name |-> "SendCommand", mgr |-> "commands",
    ptrReq |-> TRUE, hasToken |-> FALSE,
    nilDeref |-> "never",
    rejects |-> {"nil", "missing", "invalid"},
    valErr |-> [nil |-> "ErrRequestNil", missing |-> "ErrInvalidNodeID", invalid |-> "ErrInvalidCommandType", notoken |-> "none", unlisted |-> "none", emptyId |-> "none"],
    encErr |-> "ErrRequestEncodeFailed", buildErr |-> "ErrRequestBuildFailed", xmitErr |-> "ErrRequestFailed",
    readErr |-> "none", decErr |-> "ErrResponseDecodeFailed",
    read |-> "skipped", decodeFrom |-> "request",
    status |-> "none", statusFirst |-> FALSE,
    classify |-> "GetError", resOnErr |-> FALSE,
    result |-> "struct", postCheck |-> FALSE, emptyBodyOk |-> FALSE,
    prints |-> FALSE, method |-> "POST", sets |-> {},
    fields |-> {},
    limit |-> NoLimitRule ]

\* unnamed/part_025:279-365  commands.ListCommands
ListCommands_part_025_279 ==
  [ id |-> "ListCommands_part_025_279", name |-> "ListCommands", mgr |-> "commands",
    ptrReq |-> TRUE, hasToken |-> FALSE,
    nilDeref |-> "never",
    rejects |-> {"nil", "invalid"},
    valErr |-> [nil |-> "ErrRequestNil", missing |-> "none", invalid |-> "ErrInvalidOffset", notoken |-> "none", unlisted |-> "none", emptyId |-> "none"],
    encErr |-> "ErrRequestEncodeFailed", buildErr |-> "ErrRequestBuildFailed", xmitErr |-> "ErrRequestFailed",
    readErr |-> "none", decErr |-> "ErrResponseDecodeFailed",
    read |-> "skipped", decodeFrom |-> "request",
    status |-> "none", statusFirst |-> FALSE,
    classify |-> "GetError", resOnErr |-> FALSE,
    result |-> "struct", postCheck |-> FALSE, emptyBodyOk |-> FALSE,
    prints |-> FALSE, method |-> "POST", sets |-> {},
    fields |-> {},
    limit |-> [has |-> TRUE, reject |-> "outside", dflt |-> "none", lo |-> 0, hi |-> 100, to |-> 0, inPlace |-> FALSE, err |-> "ErrInvalidLimit"] ]

\* unnamed/part_026:73-166  commands.GetCommandStatus
GetCommandStatus_part_026_73 ==
  [ id |-> "GetCommandStatus_part_026_73", name |-> "GetCommandStatus", mgr |-> "commands",
    ptrReq |-> TRUE, hasToken |-> FALSE,
    nilDeref |-> "never",
    rejects |-> {"nil", "missing"},
    valErr |-> [nil |-> "ErrRequestNil", missing |-> "ErrInvalidCommandID", invalid |-> "none", notoken |-> "none", unlisted |-> "none", emptyId |-> "none"],
    encErr |-> "ErrRequestEncodeFailed", buildErr |-> "ErrRequestBuildFailed", xmitErr |-> "ErrRequestFailed",
    readErr |-> "ErrResponseReadFailed", decErr |-> "ErrResponseDecodeFailed",
    read |-> "ReadAll", decodeFrom |-> "response",
    status |-> "none", statusFirst |-> FALSE,
    classify |-> "GetError", resOnErr |-> FALSE,
    result |-> "struct", postCheck |-> FALSE, emptyBodyOk |-> FALSE,
    prints |-> FALSE, method |-> "POST", sets |-> {},
    fields |-> {},
    limit |-> NoLimitRule ]

\* unnamed/part_027:62-137  commands.GetCommandStatus
GetCommandStatus_part_027_62 ==
  [ id |-> "GetCommandStatus_part_027_62", name |-> "GetCommandStatus", mgr |-> "commands",
    ptrReq |-> TRUE, hasToken |-> FALSE,
    nilDeref |-> "never",
    rejects |-> {"nil", "missing"},
    valErr |-> [nil |-> "ErrRequestNil", missing |-> "ErrInvalidCommandID", invalid |-> "none", notoken |-> "none", unlisted |-> "none", emptyId |-> "none"],
    encErr |-> "ErrRequestEncodeFailed", buildErr |-> "ErrRequestBuildFailed", xmitErr |-> "ErrRequestFailed",
    readErr |-> "none", decErr |-> "ErrResponseDecodeFailed",
    read |-> "skipped", decodeFrom |-> "request",
    status |-> "none", statusFirst |-> FALSE,
    classify |-> "GetError", resOnErr |-> FALSE,
    result |-> "struct", postCheck |-> FALSE, emptyBodyOk |-> FALSE,
    prints |-> FALSE, method |-> "POST", sets |-> {},
    fields |-> {},
    limit |-> NoLimitRule ]

\* unnamed/part_028:51-106  data.GetSnapshot
GetSnapshot_part_028_51 ==
  [ id |-> "GetSnapshot_part_028_51", name |-> "GetSnapshot", mgr |-> "data",
    ptrReq |-> TRUE, hasToken |-> TRUE,
    nilDeref |-> "never",
    rejects |-> {"nil", "missing", "invalid", "notoken"},
    valErr |-> [nil |-> "none", missing |-> "none", invalid |-> "none", notoken |-> "none", unlisted |-> "none", emptyId |-> "none"],
    encErr |-> "none", buildErr |-> "none", xmitErr |-> "none",
    readErr |-> "none", decErr |-> "none",
    read |-> "stream", decodeFrom |-> "response",
    status |-> "eq200", statusFirst |-> FALSE,
    classify |-> "fmt", resOnErr |-> TRUE,
    result |-> "struct", postCheck |-> FALSE, emptyBodyOk |-> FALSE,
    prints |-> FALSE, method |-> "POST", sets |-> {"Accept", "Authorization", "Content-Type"},
    fields |-> {},
    limit |-> NoLimitRule ]

\* unnamed/part_029:55-130  accesstokens.RevokeAccessToken
RevokeAccessToken_part_029_55 ==
  [ id |-> "RevokeAccessToken_part_029_55", name |-> "RevokeAccessToken", mgr |-> "accesstokens",
    ptrReq |-> FALSE, hasToken |-> FALSE,
    nilDeref |-> "never",
    rejects |-> {"missing"},
    valErr |-> [nil |-> "none", missing |-> "ErrTokenIdRequired", invalid |-> "none", notoken |-> "none", unlisted |-> "none", emptyId |-> "none"],
    encErr |-> "ErrRequestEncodeFailed", buildErr |-> "ErrRequestBuildFailed", xmitErr |-> "ErrRequestFailed",
    readErr |-> "ErrResponseReadFailed", decErr |-> "ErrResponseDecodeFailed",
    read |-> "ReadAll", decodeFrom |-> "response",
    status |-> "range", statusFirst |-> FALSE,
    classify |-> "GetError", resOnErr |-> FALSE,
    result |-> "none", postCheck |-> FALSE, emptyBodyOk |-> FALSE,
    prints |-> FALSE, method |-> "POST", sets |-> {"Accept", "Content-Type"},
    fields |-> {},
    limit |-> NoLimitRule ]

\* unnamed/part_029:188-264  accesstokens.RevokeAccessToken
RevokeAccessToken_part_029_188 ==
  [ id |-> "RevokeAccessToken_part_029_188", name |-> "RevokeAccessToken", mgr |-> "accesstokens",
    ptrReq |-> FALSE, hasToken |-> FALSE,
    nilDeref |-> "never",
    rejects |-> {"missing"},
    valErr |-> [nil |-> "none", missing |-> "ErrTokenIdRequired", invalid |-> "none", notoken |-> "none", unlisted |-> "none", emptyId |-> "none"],
    encErr |-> "ErrRequestEncodeFailed", buildErr |-> "ErrRequestBuildFailed", xmitErr |-> "ErrRequestFailed",
    readErr |-> "ErrResponseReadFailed", decErr |-> "ErrResponseDecodeFailed",
    read |-> "ReadAll", decodeFrom |-> "response",
    status |-> "range", statusFirst |-> FALSE,
    classify |-> "GetError", resOnErr |-> FALSE,
    result |-> "none", postCheck |-> FALSE, emptyBodyOk |-> FALSE,
    prints |-> FALSE, method |-> "POST", sets |-> {"Accept", "Content-Type"},
    fields |-> {},
    limit |-> NoLimitRule ]

\* unnamed/part_030:174-284  accesstokens.CreateNewAccessToken
CreateNewAccessToken_part_030_174 ==
  [ id |-> "CreateNewAccessToken_part_030_174", name |-> "CreateNewAccessToken", mgr |-> "accesstokens",
    ptrReq |-> TRUE, hasToken |-> FALSE,
    nilDeref |-> "never",
    rejects |-> {"nil", "missing", "invalid"},
    valErr |-> [nil |-> "ErrInputRequired", missing |-> "ErrPolicyRequired", invalid |-> "ErrExpiryRequried", notoken |-> "none", unlisted |-> "none", emptyId |-> "none"],
    encErr |-> "ErrRequestEncodeFailed", buildErr |-> "ErrRequestBuildFailed", xmitErr |-> "ErrRequestFailed",
    readErr |-> "ErrResponseReadFailed", decErr |-> "ErrResponseDecodeFailed",
    read |-> "ReadAll", decodeFrom |-> "response",
    status |-> "range", statusFirst |-> FALSE,
    classify |-> "GetError", resOnErr |-> FALSE,
    result |-> "struct", postCheck |-> FALSE, emptyBodyOk |-> FALSE,
    prints |-> FALSE, method |-> "POST", sets |-> {"Accept", "Content-Type"},
    fields |-> {},
    limit |-> NoLimitRule ]

\* unnamed/part_030:403-507  accesstokens.CreateNewAccessToken
CreateNewAccessToken_part_030_403 ==
  [ id |-> "CreateNewAccessToken_part_030_403", name |-> "CreateNewAccessToken", mgr |-> "accesstokens",
    ptrReq |-> TRUE, hasToken |-> FALSE,
    nilDeref |-> "never",
    rejects |-> {"nil", "missing", "invalid"},
    valErr |-> [nil |-> "ErrInputRequired", missing |-> "ErrPolicyRequired", invalid |-> "ErrExpiryRequried", notoken |-> "none", unlisted |-> "none", emptyId |-> "none"],
    encErr |-> "ErrRequestEncodeFailed", buildErr |-> "ErrRequestBuildFailed", xmitErr |-> "ErrRequestFailed",
    readErr |-> "ErrResponseReadFailed", decErr |-> "ErrResponseDecodeFailed",
    read |-> "ReadAll", decodeFrom |-> "response",
    status |-> "range", statusFirst |-> FALSE,
    classify |-> "GetError", resOnErr |-> FALSE,
    result |-> "struct", postCheck |-> FALSE, emptyBodyOk |-> FALSE,
    prints |-> FALSE, method |-> "POST", sets |-> {"Accept", "Content-Type"},
    fields |-> {},
    limit |-> NoLimitRule ]

\* unnamed/part_030:544-601  accesstokens.RevokeAccessToken
RevokeAccessToken_part_030_544 ==
  [ id |-> "RevokeAccessToken_part_030_544", name |-> "RevokeAccessToken", mgr |-> "accesstokens",
    ptrReq |-> FALSE, hasToken |-> FALSE,
    nilDeref |-> "never",
    rejects |-> {"missing"},
    valErr |-> [nil |-> "none", missing |-> "none", invalid |-> "none", notoken |-> "none", unlisted |-> "none", emptyId |-> "none"],
    encErr |-> "none", buildErr |-> "none", xmitErr |-> "none",
    readErr |-> "none", decErr |-> "none",
    read |-> "ReadAll", decodeFrom |-> "response",
    status |-> "range", statusFirst |-> TRUE,
    classify |-> "fmt", resOnErr |-> FALSE,
    result |-> "none", postCheck |-> FALSE, emptyBodyOk |-> FALSE,
    prints |-> FALSE, method |-> "POST", sets |-> {"Accept", "Content-Type"},
    fields |-> {},
    limit |-> NoLimitRule ]

\* valueStore/api_op_delete_key_value.go:60-155  valuestore.DeleteKeyValuePair
DeleteKeyValuePair_api_op_delete_key_value_60 ==
  [ id |-> "DeleteKeyValuePair_api_op_delete_key_value_60", name |-> "DeleteKeyValuePair", mgr |-> "valuestore",
    ptrReq |-> TRUE, hasToken |-> FALSE,
    nilDeref |-> "never",
    rejects |-> {"nil", "missing", "invalid", "emptyId"},
    valErr |-> [nil |-> "ErrInputRequired", missing |-> "ErrValueNamespaceIdRequired", invalid |-> "ErrInvalidNamespaceScope", notoken |-> "none", unlisted |-> "none", emptyId |-> "ErrValueNamespaceIdRequired"],
    encErr |-> "ErrRequestEncodeFailed", buildErr |-> "ErrRequestBuildFailed", xmitErr |-> "ErrRequestFailed",
    readErr |-> "ErrResponseReadFailed", decErr |-> "ErrResponseDecodeFailed",
    read |-> "ReadAll", decodeFrom |-> "response",
    status |-> "range", statusFirst |-> FALSE,
    classify |-> "GetError", resOnErr |-> FALSE,
    result |-> "none", postCheck |-> FALSE, emptyBodyOk |-> FALSE,
    prints |-> FALSE, method |-> "POST", sets |-> {"Accept", "Content-Type"},
    fields |-> {"emptyId"},
    limit |-> NoLimitRule ]

\* valueStore/api_op_scan_available_items.go:95-199  valuestore.ScanAvailableItems
ScanAvailableItems_api_op_scan_available_items_95 ==
  [ id |-> "ScanAvailableItems_api_op_scan_available_items_95", name |-> "ScanAvailableItems", mgr |-> "valuestore",
    ptrReq |-> TRUE, hasToken |-> FALSE,
    nilDeref |-> "never",
    rejects |-> {"nil", "missing", "invalid"},
    valErr |-> [nil |-> "ErrInputRequired", missing |-> "ErrNamespaceScopeRequired", invalid |-> "ErrInvalidNamespaceScope", notoken |-> "none", unlisted |-> "none", emptyId |-> "none"],
    encErr |-> "ErrRequestEncodeFailed", buildErr |-> "ErrRequestBuildFailed", xmitErr |-> "ErrRequestFailed",
    readErr |-> "ErrResponseReadFailed", decErr |-> "ErrResponseDecodeFailed",
    read |-> "ReadAll", decodeFrom |-> "response",
    status |-> "none", statusFirst |-> FALSE,
    classify |-> "GetError", resOnErr |-> FALSE,
    result |-> "struct", postCheck |-> FALSE, emptyBodyOk |-> FALSE,
    prints |-> FALSE, method |-> "POST", sets |-> {},
    fields |-> {"emptyId"},
    limit |-> [has |-> TRUE, reject |-> "none", dflt |-> "none", lo |-> 0, hi |-> 0, to |-> 0, inPlace |-> FALSE, err |-> "none"] ]

\* variable/ListAllVariables.go:52-132  variable.ListAllVariable
ListAllVariable_ListAllVariables_52 ==
  [ id |-> "ListAllVariable_ListAllVariables_52", name |-> "ListAllVariable", mgr |-> "variable",
    ptrReq |-> FALSE, hasToken |-> FALSE,
    nilDeref |-> "never",
    rejects |-> {},
    valErr |-> [nil |-> "none", missing |-> "none", invalid |-> "none", notoken |-> "none", unlisted |-> "none", emptyId |-> "none"],
    encErr |-> "none", buildErr |-> "none", xmitErr |-> "none",
    readErr |-> "none", decErr |-> "none",
    read |-> "ReadAll", decodeFrom |-> "response",
    status |-> "range", statusFirst |-> TRUE,
    classify |-> "fmt", resOnErr |-> FALSE,
    result |-> "struct", postCheck |-> FALSE, emptyBodyOk |-> FALSE,
    prints |-> FALSE, method |-> "POST", sets |-> {"Accept", "Content-Type"},
    fields |-> {},
    limit |-> [has |-> TRUE, reject |-> "none", dflt |-> "eq0", lo |-> 0, hi |-> 0, to |-> 100, inPlace |-> FALSE, err |-> "none"] ]

\* variable/api_op_create_variable.go:157-259  variable.CreateVariable
CreateVariable_api_op_create_variable_157 ==
  [ id |-> "CreateVariable_api_op_create_variable_157", name |-> "CreateVariable", mgr |-> "variable",
    ptrReq |-> TRUE, hasToken |-> FALSE,
    nilDeref |-> "never",
    rejects |-> {"nil", "missing", "invalid"},
    valErr |-> [nil |-> "ErrInputRequired", missing |-> "ErrVariableNameRequired", invalid |-> "ErrVariableTypeRequired", notoken |-> "none", unlisted |-> "none", emptyId |-> "none"],
    encErr |-> "ErrRequestEncodeFailed", buildErr |-> "ErrRequestBuildFailed", xmitErr |-> "ErrRequestFailed",
    readErr |-> "ErrResponseReadFailed", decErr |-> "ErrResponseDecodeFailed",
    read |-> "ReadAll", decodeFrom |-> "response",
    status |-> "range", statusFirst |-> FALSE,
    classify |-> "GetError", resOnErr |-> FALSE,
    result |-> "struct", postCheck |-> FALSE, emptyBodyOk |-> FALSE,
    prints |-> FALSE, method |-> "POST", sets |-> {"Accept", "Content-Type"},
    fields |-> {},
    limit |-> NoLimitRule ]

\* variable/api_op_delete_variable.go:53-130  variable.DeleteVariable
DeleteVariable_api_op_delete_variable_53 ==
  [ id |-> "DeleteVariable_api_op_delete_variable_53", name |-> "DeleteVariable", mgr |-> "variable",
    ptrReq |-> FALSE, hasToken |-> FALSE,
    nilDeref |-> "never",
    rejects |-> {"missing"},
    valErr |-> [nil |-> "none", missing |-> "ErrVariableRequired", invalid |-> "none", notoken |-> "none", unlisted |-> "none", emptyId |-> "none"],
    encErr |-> "ErrRequestEncodeFailed", buildErr |-> "ErrRequestBuildFailed", xmitErr |-> "ErrRequestFailed",
    readErr |-> "ErrResponseReadFailed", decErr |-> "ErrResponseDecodeFailed",
    read |-> "ReadAll", decodeFrom |-> "response",
    status |-> "range", statusFirst |-> FALSE,
    classify |-> "GetError", resOnErr |-> FALSE,
    result |-> "none", postCheck |-> FALSE, emptyBodyOk |-> FALSE,
    prints |-> FALSE, method |-> "POST", sets |-> {"Accept", "Content-Type"},
    fields |-> {},
    limit |-> NoLimitRule ]

\* variable/api_op_delete_variable.go:251-351  variable.ListAllVariable
ListAllVariable_api_op_delete_variable_251 ==
  [ id |-> "ListAllVariable_api_op_delete_variable_251", name |-> "ListAllVariable", mgr |-> "variable",
    ptrReq |-> FALSE, hasToken |-> FALSE,
    nilDeref |-> "never",
    rejects |-> {},
    valErr |-> [nil |-> "none", missing |-> "none", invalid |-> "none", notoken |-> "none", unlisted |-> "none", emptyId |-> "none"],
    encErr |-> "ErrRequestEncodeFailed", buildErr |-> "ErrRequestBuildFailed", xmitErr |-> "ErrRequestFailed",
    readErr |-> "ErrResponseReadFailed", decErr |-> "ErrResponseDecodeFailed",
    read |-> "ReadAll", decodeFrom |-> "response",
    status |-> "range", statusFirst |-> FALSE,
    classify |-> "GetError", resOnErr |-> FALSE,
    result |-> "struct", postCheck |-> FALSE, emptyBodyOk |-> FALSE,
    prints |-> FALSE, method |-> "POST", sets |-> {"Accept", "Content-Type"},
    fields |-> {},
    limit |-> [has |-> TRUE, reject |-> "none", dflt |-> "le0", lo |-> 0, hi |-> 0, to |-> 100, inPlace |-> FALSE, err |-> "none"] ]

\* variable/variable.go:50-125  variable.CreateVariable
CreateVariable_variable_50 ==
  [ id |-> "CreateVariable_variable_50", name |-> "CreateVariable", mgr |-> "variable",
    ptrReq |-> TRUE, hasToken |-> FALSE,
    nilDeref |-> "validate",
    rejects |-> {"missing", "invalid"},
    valErr |-> [nil |-> "none", missing |-> "none", invalid |-> "none", notoken |-> "none", unlisted |-> "none", emptyId |-> "none"],
    encErr |-> "none", buildErr |-> "none", xmitErr |-> "none",
    readErr |-> "none", decErr |-> "none",
    read |-> "ReadAll", decodeFrom |-> "response",
    status |-> "eq200", statusFirst |-> TRUE,
    classify |-> "fmt", resOnErr |-> FALSE,
    result |-> "struct", postCheck |-> FALSE, emptyBodyOk |-> FALSE,
    prints |-> FALSE, method |-> "POST", sets |-> {"Accept", "Content-Type"},
    fields |-> {},
    limit |-> NoLimitRule ]

Operations ==
  { CreateNewAccessToken_CreateToken_87,
    GetAggregationByTime_api_op_time_aggregations_219,
    InvalidateCommand_api_op_invalidate_command_56,
    ListCommands_api_op_list_commands_101,
    SendCommand_api_op_send_command_81,
    GetData_get_data_87,
    GetLatestData_get_latest_data_47,
    GetData_api_op_get_for_variable_58,
    GetLatestData_api_op_get_latest_data_variable_35,
    GetSnapshot_api_op_get_snapshot_72,
    GetSnapshot_api_op_get_snapshot_214,
    GetLatestData_datapoint_134,
    GetLatestData_datapoint_293,
    GetHealthStatus_api_op_health_status_81,
    AddChildNode_api_op_add_child_node_65,
    ClearAllChildNodes_api_op_add_child_node_195,
    ClearChildNodes_api_op_clear_all_child_nodes_49,
    CreateNode_api_op_create_node_58,
    DeleteNode_api_op_delete_node_44,
    GetConnectionKey_api_op_get_connection_key_49,
    GetNodeList_api_op_get_list_nodes_98,
    GetConnectionKey_api_op_get_list_nodes_247,
    GetNodeDetails_api_op_get_node_details_55,
    ListChildNodes_api_op_list_all_child_nodes_84,
    GetNodeDetails_api_op_list_all_child_nodes_229,
    RemoveChildNode_api_op_remove_child_node_57,
    UpdateNode_api_op_update_node_details_80,
    UpdateNode_api_op_update_node_details_272,
    CreateNode_create_node_28,
    DeleteNode_delete_node_26,
    GetConnectionKey_delete_node_121,
    GetNodeDetails_get_node_details_65,
    UpdateNodeDetails_get_node_details_195,
    RemoveChildNode_remove_child_node_25,
    CreateVariable_part_000_116,
    CreateVariable_part_001_80,
    DeleteVariable_part_002_31,
    GetValue_part_004_99,
    SetValue_part_005_104,
    ClearChildNodes_part_008_51,
    GetConnectionKey_part_009_48,
    ListAllChildNodes_part_010_30,
    RemoveChildNode_part_010_136,
    DeleteNode_part_011_50,
    AuthorizeDevice_part_013_49,
    AddChildNode_part_014_32,
    ListNodes_part_014_152,
    CreateNode_part_014_279,
    AuthorizeDevice_part_015_52,
    AuthorizeDevice_part_015_186,
    GetLatestData_part_016_68,
    GetData_part_017_88,
    GetData_part_017_296,
    GetData_part_017_483,
    GetAggregationByTime_part_022_109,
    SendCommand_part_025_80,
    ListCommands_part_025_279,
    GetCommandStatus_part_026_73,
    GetCommandStatus_part_027_62,
    GetSnapshot_part_028_51,
    RevokeAccessToken_part_029_55,
    RevokeAccessToken_part_029_188,
    CreateNewAccessToken_part_030_174,
    CreateNewAccessToken_part_030_403,
    RevokeAccessToken_part_030_544,
    DeleteKeyValuePair_api_op_delete_key_value_60,
    ScanAvailableItems_api_op_scan_available_items_95,
    ListAllVariable_ListAllVariables_52,
    CreateVariable_api_op_create_variable_157,
    DeleteVariable_api_op_delete_variable_53,
    ListAllVariable_api_op_delete_variable_251,
    CreateVariable_variable_50 }
(***************************************************************************)
(* Values exchanged with the server.                                       *)
(***************************************************************************)
ExtraStatusSeq == <<201, 500, 404, 299, 302>>

StatusCodes ==
  {StatusOK} \cup { ExtraStatusSeq[i] : i \in 1..MaxExtraStatus }

MessageSeq == <<"boom", "denied", "quota">>

Messages == {""} \cup { MessageSeq[i] : i \in 1..MaxMessages }

ReasonCodes == {"", "node::nodenotfound", "zz::unmapped"}

\* common.BaseResponse plus the endpoint's payload fields (present or not).
ZeroEnvelope ==
  [success |-> FALSE, error |-> "", reasonCode |-> "", payload |-> FALSE]

Envelopes ==
  [success : {TRUE}, error : {""}, reasonCode : {""}, payload : BOOLEAN]
    \cup
  [success : {FALSE}, error : Messages, reasonCode : ReasonCodes, payload : BOOLEAN]

\* The bytes of a body: a JSON envelope, nothing, something that is not JSON,
\* or a stream that breaks before its end ("broken": reading it fails).
NoBody == [kind |-> "none", env |-> ZeroEnvelope]

Bodies ==
  [kind : {"json"}, env : Envelopes]
    \cup [kind : {"empty", "malformed", "broken"}, env : {ZeroEnvelope}]

\* json.Marshal(req): none of the request records has a field named
\* success, error or reasonCode, nor a field of the response payload.
RequestBytes == [kind |-> "request", env |-> ZeroEnvelope]

NoResp == [status |-> 0, body |-> NoBody]

Responses == [status : StatusCodes, body : Bodies]

\* json.Unmarshal / Decoder.Decode into the envelope struct: unknown fields
\* are ignored, absent fields keep their zero value; empty, non-JSON and
\* broken input is an error.
Unmarshal(bytes) ==
  CASE bytes.kind = "json"    -> [ok |-> TRUE, env |-> bytes.env]
    [] bytes.kind = "request" -> [ok |-> TRUE, env |-> ZeroEnvelope]
    [] OTHER                  -> [ok |-> FALSE, env |-> ZeroEnvelope]

(***************************************************************************)
(* Errors.  kinds is the set of sentinels s with errors.Is(err, s).        *)
(***************************************************************************)
NoError == [stage |-> "none", src |-> "none", kinds |-> {}, msg |-> ""]

\* &AnedyaError{Message: ..., Err: sentinel}, a bare sentinel, or
\* fmt.Errorf / errors.New (sentinel = "none").
StageError(stage, sentinel) ==
  [stage |-> stage,
   src   |-> IF sentinel = "none" THEN "fmt" ELSE "AnedyaError",
   kinds |-> IF sentinel = "none" THEN {} ELSE {sentinel},
   msg   |-> "static"]

\* GetError without the ErrUnknown fallback for codes missing from the map.
GetErrorNoFallback(map, code, message) ==
  [stage |-> "classify", src |-> "GetError",
   kinds |-> IF code \in DOMAIN map THEN {map[code]} ELSE {},
   msg |-> message]

\* GetError choosing the sentinel from the message when there is one.
GetErrorByMessage(map, code, message) ==
  LET sentinel == IF code \in DOMAIN map /\ message = "" THEN map[code] ELSE ErrUnknown
  IN  [stage |-> "classify", src |-> "GetError",
       kinds |-> {sentinel}, msg |-> message]

GetError(map, code, message) ==
  LET sentinel == IF code \in DOMAIN map THEN map[code] ELSE ErrUnknown
  IN  [stage |-> "classify", src |-> "GetError",
       kinds |-> {sentinel}, msg |-> message]

\* resp.StatusCode passes the operation's check.
StatusPasses(o, status) ==
  CASE o.status = "none"  -> TRUE
    [] o.status = "eq200" -> status = StatusOK
    [] o.status = "range" -> ~(status < StatusOK \/ status >= StatusMultipleChoices)

\* The error an operation returns for a response it treats as failed.
ResponseError(o, map, env) ==
  IF o.classify = "GetError"
    THEN GetError(map, env.reasonCode, env.error)
    ELSE StageError("classify", "none")

(***************************************************************************)
(* State.                                                                  *)
(***************************************************************************)
\* The headers of a request, "" when absent.
HeaderNames == {"Content-Type", "Accept", "Authorization"}

\* The key the client was built with, and the token a data manager holds.
apiKey == "key"
authToken == "Bearer token"

\* The request an operation hands to httpClient.Do.
NewRequest(o) ==
  [method |-> o.method,
   header |-> [h \in HeaderNames |->
                 IF h \notin o.sets THEN ""
                 ELSE IF h = "Authorization" THEN authToken
                 ELSE "application/json"]]

\* authTransport.RoundTrip: Authorization and Content-Type are set on the
\* clone that goes to the next transport, Accept on the caller's request
\* after the clone was taken.
RoundTrip(r) ==
  [next |-> [r EXCEPT !.header["Authorization"] = "Bearer " \o apiKey,
                      !.header["Content-Type"] = "application/json"],
   req |-> [r EXCEPT !.header["Accept"] = "application/json"]]

VARIABLES
  pc,         \* position of the current call in its function body
  op,         \* the operation being called
  req,        \* class of the request passed by the caller
  httpCalls,  \* calls of httpClient.Do made by the current call
  resp,       \* the *http.Response returned by Do
  body,       \* the buffer filled by io.ReadAll
  apiResp,    \* the decoded envelope
  err,        \* the returned error
  result,     \* the returned result: "absent" (nil / zero) or "present"
  codeMap,    \* errors.codeMap
  lastClass,  \* the last GetError call of an earlier call of the client
  httpReq,    \* the context carried by the *http.Request built by the call
  sent,       \* the transport has written bytes of the request to the server
  cancelledAt,\* the phase of the call in which the caller cancelled ctx
  first,      \* outcome of the call that the current call repeats
  lim,        \* the limit: as passed by the caller, as it stands in the
              \* caller's request record, as held by the call, as encoded
  stdout,     \* lines the current call has written to standard output
  timeout,    \* the Timeout of the http.Client the manager was built with
  node,       \* a Node record shared by the goroutines calling its methods
  gpc,        \* position of each goroutine in Node.GetDetails
  gdata,      \* what GetNodeDetails returned to each goroutine
  gret        \* what Node.GetDetails returned to each goroutine

vars == <<pc, op, req, httpCalls, resp, body, apiResp, err, result, codeMap,
          lastClass, httpReq, sent, cancelledAt, first, lim, stdout, timeout,
          node, gpc, gdata, gret>>

\* The variables of the manager's construction and of the Node wrapper.
envVars == <<timeout, node, gpc, gdata, gret>>

\* The variables of a call of a manager's operation.
callVars == <<pc, op, req, httpCalls, resp, body, apiResp, err, result, codeMap,
              lastClass, httpReq, sent, cancelledAt, first, lim, stdout>>

\* The variables of the caller's context and of the transport.
ctxVars == <<httpReq, sent, cancelledAt, first>>

\* http.Client{}.Timeout: zero means no timeout (a client handed to a
\* manager's constructor, such as http.DefaultClient); NewClient sets 30
\* seconds.
NoTimeout == 0
ClientTimeout == 30

\* The goroutines that call methods of the same Node.
Goroutines == {1, 2}

\* The values a field of a node's details takes: what the record holds
\* before the call, and what the server answers.
Old == "old"
Answers == {"a", "b"}

\* A Node record: &Node{NodeId: ..., nodeManagement: m}, m being "nil" for
\* a record the caller made itself.
NewNode(m) ==
  [nodeManagement |-> m, NodeId |-> "n-1", NodeName |-> Old, Modified |-> Old]

\* What NodeManagement.GetNodeDetails returns: an error, or a map that has
\* or has not an entry for the node's id.
NoData == [kind |-> "none", NodeName |-> "", Modified |-> ""]
Outcomes ==
  [kind : {"error", "absent"}, NodeName : {""}, Modified : {""}]
    \cup {[kind |-> "details", NodeName |-> v, Modified |-> v] : v \in Answers}

\* What Node.GetDetails returns: an error, or the pointer to the record, as
\* the caller finds the record on return.
NoReturn == [kind |-> "none", kinds |-> {}, NodeName |-> "", Modified |-> ""]
ReturnError(sentinel) ==
  [kind |-> "error", kinds |-> {sentinel}, NodeName |-> "", Modified |-> ""]

NoClass == [mgr |-> "none", code |-> "", kinds |-> {}]

NoFirst == [resp |-> NoResp, err |-> NoError, result |-> "absent"]

\* Limits a caller may pass.
LimitValues == {-1, 0, 1, 100, 101, 1000, 1001}

\* The limit of a request of class c for operation o.
LimitsOf(o, c) ==
  IF o.limit.has THEN (IF c = "valid" THEN LimitValues ELSE {1}) ELSE {0}

\* The caller's request before the call touches it.
FreshLimit(l) ==
  [caller |-> l, req |-> l, local |-> l, wire |-> 0, encoded |-> FALSE]

\* The operation returns a validation error for limit l.
LimitRejected(o, l) ==
  CASE o.limit.reject = "outside" -> l < o.limit.lo \/ l > o.limit.hi
    [] o.limit.reject = "below"   -> l < o.limit.lo
    [] OTHER                      -> FALSE

\* The limit the operation goes on with.
EffectiveLimit(o, l) ==
  CASE o.limit.dflt = "outside" ->
         IF l < o.limit.lo \/ l > o.limit.hi THEN o.limit.to ELSE l
    [] o.limit.dflt = "le0" -> IF l <= 0 THEN o.limit.to ELSE l
    [] o.limit.dflt = "eq0" -> IF l = 0 THEN o.limit.to ELSE l
    [] OTHER -> l

\* Input classes an operation can be called with.
Classes(o) ==
  {"valid", "missing", "invalid"}
    \cup (IF o.ptrReq THEN {"nil"} ELSE {})
    \cup (IF o.hasToken THEN {"notoken"} ELSE {})
    \cup o.fields

\* The state after construction: a manager holding a client with Timeout t,
\* and a Node record whose manager reference is m.
InitOf(t, m) ==
  /\ pc = "idle"
  /\ op = CreateNode_api_op_create_node_58
  /\ req = "valid"
  /\ httpCalls = 0
  /\ resp = NoResp
  /\ body = NoBody
  /\ apiResp = ZeroEnvelope
  /\ err = NoError
  /\ result = "absent"
  /\ codeMap = codeMapInit
  /\ lastClass = NoClass
  /\ httpReq = "none"
  /\ sent = FALSE
  /\ cancelledAt = "never"
  /\ first = NoFirst
  /\ lim = FreshLimit(0)
  /\ stdout = 0
  /\ timeout = t
  /\ node = NewNode(m)
  /\ gpc = [g \in Goroutines |-> "idle"]
  /\ gdata = [g \in Goroutines |-> NoData]
  /\ gret = [g \in Goroutines |-> NoReturn]

\* A manager built by its own constructor around a client without Timeout.
Init == InitOf(NoTimeout, "nm")

\* The current call went through errors.GetError.
Classified == pc = "done" /\ err.src = "GetError"

\* The caller invokes an operation of the client.
Call(o, c, l) ==
  /\ pc = "idle"
  /\ c \in Classes(o)
  /\ l \in LimitsOf(o, c)
  /\ lim' = FreshLimit(l)
  /\ pc' = "validate"
  /\ op' = o
  /\ req' = c
  /\ UNCHANGED <<httpCalls, resp, body, apiResp, err, result, codeMap, lastClass>>
  /\ UNCHANGED ctxVars
  /\ UNCHANGED envVars
  /\ stdout' = 0

\* The call has returned to the caller; its locals are gone.
Return ==
  /\ pc = "done"
  /\ pc' = "idle"
  /\ httpCalls' = 0
  /\ resp' = NoResp
  /\ body' = NoBody
  /\ apiResp' = ZeroEnvelope
  /\ err' = NoError
  /\ result' = "absent"
  /\ lastClass' = IF Classified
                    THEN [mgr |-> op.mgr, code |-> apiResp.reasonCode, kinds |-> err.kinds]
                    ELSE lastClass
  /\ op' = CreateNode_api_op_create_node_58
  /\ req' = "valid"
  /\ httpReq' = "none"
  /\ sent' = FALSE
  /\ cancelledAt' = "never"
  /\ first' = NoFirst
  /\ lim' = FreshLimit(0)
  /\ UNCHANGED codeMap
  /\ UNCHANGED envVars
  /\ UNCHANGED stdout

\* The caller makes its call once more, with the same request, and
\* the server will answer as it did: the outcome of the first call is kept
\* for comparison if its context was never cancelled.
Repeat ==
  /\ pc = "done"
  /\ first = NoFirst
  /\ cancelledAt = "never"
  /\ resp # NoResp
  /\ first' = [resp |-> resp, err |-> err, result |-> result]
  /\ pc' = "validate"
  /\ httpCalls' = 0
  /\ resp' = NoResp
  /\ body' = NoBody
  /\ apiResp' = ZeroEnvelope
  /\ err' = NoError
  /\ result' = "absent"
  /\ httpReq' = "none"
  /\ sent' = FALSE
  /\ lim' = FreshLimit(lim.caller)
  /\ UNCHANGED <<op, req, codeMap, lastClass, cancelledAt>>
  /\ UNCHANGED envVars
  /\ UNCHANGED stdout

\* The phase of the call at a position: the request not yet handed to the
\* transport, Do waiting for the response, the body being read from the
\* connection, the body fully read.
Phase(p) ==
  CASE p \in {"validate", "encode", "build", "transmit"} -> "before"
    [] p = "waiting" -> "waiting"
    [] p = "read" -> "reading"
    [] p = "decode" /\ op.read = "stream" /\ op.decodeFrom = "response" -> "reading"
    [] OTHER -> "after"

\* The caller cancels the context it passed to the call.
Cancel ==
  /\ pc \in {"validate", "encode", "build", "transmit", "waiting", "read",
              "status", "decode", "classify"}
  /\ cancelledAt = "never"
  /\ cancelledAt' = Phase(pc)
  /\ UNCHANGED <<pc, op, req, httpCalls, resp, body, apiResp, err, result,
                 codeMap, lastClass, httpReq, sent, first, lim>>
  /\ UNCHANGED envVars
  /\ UNCHANGED stdout

\* The context of the built request is done.
ContextDone == httpReq = "ctx" /\ cancelledAt # "never"

\* Validate with the checks left to the server: every request is encoded.
ValidateOnServer ==
  /\ pc = "validate"
  /\ err' = err
  /\ pc' = IF req = "nil" /\ op.nilDeref = "validate" THEN "panic" ELSE "encode"
  /\ UNCHANGED <<op, req, httpCalls, resp, body, apiResp, result, codeMap, lastClass>>
  /\ UNCHANGED ctxVars
  /\ UNCHANGED lim
  /\ UNCHANGED envVars
  /\ UNCHANGED stdout

\* The checks before json.Marshal.
Validate ==
  /\ pc = "validate"
  /\ IF req \in op.rejects
       THEN /\ err' = StageError("validate", op.valErr[req])
            /\ pc' = "done"
            /\ lim' = lim
       ELSE IF req = "nil" /\ op.nilDeref = "validate"
         THEN /\ err' = err
              /\ pc' = "panic"
              /\ lim' = lim
         ELSE IF LimitRejected(op, lim.local)
           THEN /\ err' = StageError("validate", op.limit.err)
                /\ pc' = "done"
                /\ lim' = lim
           ELSE /\ err' = err
                /\ pc' = "encode"
                /\ lim' = [lim EXCEPT
                             !.local = EffectiveLimit(op, lim.local),
                             !.req = IF op.limit.inPlace
                                       THEN EffectiveLimit(op, lim.local)
                                       ELSE lim.req]
  /\ UNCHANGED <<op, req, httpCalls, resp, body, apiResp, result, codeMap, lastClass>>
  /\ UNCHANGED ctxVars
  /\ UNCHANGED envVars
  /\ UNCHANGED stdout

\* json.Marshal of the request.
Encode ==
  /\ pc = "encode"
  /\ \E ok \in BOOLEAN :
       IF ok THEN /\ pc' = "build"
                  /\ err' = err
                  /\ lim' = [lim EXCEPT !.wire = lim.local, !.encoded = TRUE]
             ELSE /\ pc' = "done"
                  /\ err' = StageError("encode", op.encErr)
                  /\ lim' = lim
  /\ UNCHANGED <<op, req, httpCalls, resp, body, apiResp, result, codeMap, lastClass>>
  /\ UNCHANGED ctxVars
  /\ UNCHANGED envVars
  /\ UNCHANGED stdout

\* Build with http.NewRequest: the request carries the background context.
BuildWithoutContext ==
  /\ pc = "build"
  /\ \E ok \in BOOLEAN :
       IF ok THEN pc' = "transmit" /\ err' = err /\ httpReq' = "background"
             ELSE pc' = "done" /\ err' = StageError("build", op.buildErr)
                  /\ httpReq' = httpReq
  /\ UNCHANGED <<op, req, httpCalls, resp, body, apiResp, result, codeMap, lastClass>>
  /\ UNCHANGED <<sent, cancelledAt, first>>
  /\ UNCHANGED lim
  /\ UNCHANGED envVars
  /\ UNCHANGED stdout

\* http.NewRequestWithContext(ctx, ...): the request carries the caller's
\* context.
Build ==
  /\ pc = "build"
  /\ \E ok \in BOOLEAN :
       IF ok THEN pc' = "transmit" /\ err' = err /\ httpReq' = "ctx"
             ELSE pc' = "done" /\ err' = StageError("build", op.buildErr)
                  /\ httpReq' = httpReq
  /\ UNCHANGED <<op, req, httpCalls, resp, body, apiResp, result, codeMap, lastClass>>
  /\ UNCHANGED <<sent, cancelledAt, first>>
  /\ UNCHANGED lim
  /\ UNCHANGED envVars
  /\ UNCHANGED stdout

\* Transmit calling Do again, once, after a transport error.
TransmitRetrying ==
  /\ pc = "transmit"
  /\ httpCalls' = httpCalls + 1
  /\ IF ContextDone
       THEN /\ pc' = "done"
            /\ err' = StageError("transmit", op.xmitErr)
            /\ sent' = sent
       ELSE \/ /\ pc' = IF httpCalls = 0 THEN "transmit" ELSE "done"
               /\ err' = IF httpCalls = 0 THEN err
                          ELSE StageError("transmit", op.xmitErr)
               /\ sent' = sent
            \/ /\ pc' = "waiting"
               /\ err' = err
               /\ sent' = TRUE
  /\ UNCHANGED <<op, req, resp, body, apiResp, result, codeMap, lastClass>>
  /\ UNCHANGED <<httpReq, cancelledAt, first>>
  /\ UNCHANGED lim
  /\ UNCHANGED envVars
  /\ UNCHANGED stdout

\* httpClient.Do is called.  A request whose context is done is refused
\* before anything is written; otherwise the transport fails (no
\* connection) or writes the request and Do waits for the response.
Transmit ==
  /\ pc = "transmit"
  /\ httpCalls' = httpCalls + 1
  /\ IF ContextDone
       THEN /\ pc' = "done"
            /\ err' = StageError("transmit", op.xmitErr)
            /\ sent' = sent
       ELSE \/ /\ pc' = "done"
               /\ err' = StageError("transmit", op.xmitErr)
               /\ sent' = sent
            \/ /\ pc' = "waiting"
               /\ err' = err
               /\ sent' = TRUE
  /\ UNCHANGED <<op, req, resp, body, apiResp, result, codeMap, lastClass>>
  /\ UNCHANGED <<httpReq, cancelledAt, first>>
  /\ UNCHANGED lim
  /\ UNCHANGED envVars
  /\ UNCHANGED stdout

\* httpClient.Do returns: the response (status line and headers received,
\* the body still on the connection) or a transport error.  Do returns the
\* context's error as soon as the request's context is done.
Await ==
  /\ pc = "waiting"
  /\ IF ContextDone
       THEN /\ pc' = "done"
            /\ err' = StageError("transmit", op.xmitErr)
            /\ resp' = resp
       ELSE \/ /\ pc' = "done"
               /\ err' = StageError("transmit", op.xmitErr)
               /\ resp' = resp
            \/ \E r \in (IF first = NoFirst THEN Responses ELSE {first.resp}) :
                 /\ resp' = r
                 /\ err' = err
                 /\ pc' = IF op.read = "ReadAll" THEN "read" ELSE "decode"
  /\ UNCHANGED <<op, req, httpCalls, body, apiResp, result, codeMap, lastClass>>
  /\ UNCHANGED ctxVars
  /\ UNCHANGED lim
  /\ UNCHANGED envVars
  /\ UNCHANGED stdout

\* io.ReadAll(resp.Body): reads the body from the connection until EOF.
\* The read fails when the stream breaks, and it can fail when the request's
\* context is done before the whole body has arrived.
Read ==
  /\ pc = "read"
  /\ \E arrived \in (IF ContextDone THEN BOOLEAN ELSE {TRUE}) :
       IF resp.body.kind # "broken" /\ arrived
         THEN /\ body' = resp.body
              /\ err' = err
              /\ pc' = IF op.statusFirst THEN "status" ELSE "decode"
         ELSE /\ body' = body
              /\ err' = StageError("read", op.readErr)
              /\ pc' = "done"
  /\ UNCHANGED <<op, req, httpCalls, resp, apiResp, result, codeMap, lastClass>>
  /\ UNCHANGED ctxVars
  /\ UNCHANGED lim
  /\ UNCHANGED envVars
  /\ UNCHANGED stdout

\* The status check of the operations that test resp.StatusCode before
\* decoding the body.
CheckStatus ==
  /\ pc = "status"
  /\ IF StatusPasses(op, resp.status)
       THEN pc' = "decode" /\ err' = err
       ELSE pc' = "done" /\ err' = StageError("classify", "none")
  /\ UNCHANGED <<op, req, httpCalls, resp, body, apiResp, result, codeMap, lastClass>>
  /\ UNCHANGED ctxVars
  /\ UNCHANGED lim
  /\ UNCHANGED envVars
  /\ UNCHANGED stdout

\* The bytes the operation hands to the JSON decoder.
DecodeInput ==
  CASE op.decodeFrom = "request" -> RequestBytes
    [] op.read = "ReadAll"       -> body
    [] OTHER                     -> resp.body

\* json.Unmarshal / json.NewDecoder(resp.Body).Decode.
Decode ==
  /\ pc = "decode"
  /\ \E arrived \in (IF ContextDone /\ Phase(pc) = "reading"
                         THEN BOOLEAN ELSE {TRUE}) :
     IF op.emptyBodyOk /\ body.kind = "empty"
       THEN /\ pc' = "done"
            /\ apiResp' = apiResp
            /\ stdout' = stdout
            /\ err' = IF resp.status = StatusOK THEN err
                      ELSE StageError("classify", "none")
       ELSE LET u == Unmarshal(DecodeInput)
            IN  IF u.ok /\ arrived
                  THEN /\ apiResp' = u.env
                       /\ err' = err
                       /\ pc' = "classify"
                       /\ stdout' = IF op.prints THEN stdout + 1 ELSE stdout
                  ELSE /\ apiResp' = apiResp
                       /\ err' = StageError("decode", op.decErr)
                       /\ pc' = "done"
                       /\ stdout' = stdout
  /\ UNCHANGED <<op, req, httpCalls, resp, body, result, codeMap, lastClass>>
  /\ UNCHANGED ctxVars
  /\ UNCHANGED lim
  /\ UNCHANGED envVars

\* Classify remembering in codeMap every reason code it has looked up.
ClassifyCaching ==
  /\ pc = "classify"
  /\ LET statusFails == ~op.statusFirst /\ ~StatusPasses(op, resp.status)
     IN  IF statusFails \/ ~apiResp.success
           THEN /\ err' = ResponseError(op, codeMap, apiResp)
                /\ result' = IF op.resOnErr THEN "present" ELSE "absent"
                /\ pc' = "done"
                /\ codeMap' =
                     IF op.classify = "GetError"
                       THEN [c \in DOMAIN codeMap \cup {apiResp.reasonCode} |->
                               IF c \in DOMAIN codeMap THEN codeMap[c]
                                                       ELSE ErrUnknown]
                       ELSE codeMap
           ELSE IF op.postCheck /\ ~apiResp.payload
             THEN /\ err' = StageError("classify", "none")
                  /\ result' = result
                  /\ pc' = "done"
                  /\ codeMap' = codeMap
             ELSE IF req = "nil" /\ op.nilDeref = "result"
               THEN /\ err' = err
                    /\ result' = result
                    /\ pc' = "panic"
                    /\ codeMap' = codeMap
               ELSE /\ err' = err
                    /\ result' = CASE op.result = "struct"  -> "present"
                                   [] op.result = "payload" ->
                                        IF apiResp.payload THEN "present" ELSE "absent"
                                   [] OTHER                 -> "absent"
                    /\ pc' = "done"
                    /\ codeMap' = codeMap
  /\ UNCHANGED <<op, req, httpCalls, resp, body, apiResp, lastClass>>
  /\ UNCHANGED ctxVars
  /\ UNCHANGED lim
  /\ UNCHANGED envVars
  /\ UNCHANGED stdout

\* Classify returning ctx.Err() when the context is done.
ClassifyCheckingContext ==
  /\ pc = "classify"
  /\ LET statusFails == ~op.statusFirst /\ ~StatusPasses(op, resp.status)
     IN  IF cancelledAt # "never"
           THEN /\ err' = StageError("classify", "none")
                /\ result' = result
                /\ pc' = "done"
         ELSE
         IF statusFails \/ ~apiResp.success
           THEN /\ err' = ResponseError(op, codeMap, apiResp)
                /\ result' = IF op.resOnErr THEN "present" ELSE "absent"
                /\ pc' = "done"
           ELSE IF op.postCheck /\ ~apiResp.payload
             THEN /\ err' = StageError("classify", "none")
                  /\ result' = result
                  /\ pc' = "done"
             ELSE IF req = "nil" /\ op.nilDeref = "result"
               THEN /\ err' = err
                    /\ result' = result
                    /\ pc' = "panic"
               ELSE /\ err' = err
                    /\ result' = CASE op.result = "struct"  -> "present"
                                   [] op.result = "payload" ->
                                        IF apiResp.payload THEN "present" ELSE "absent"
                                   [] OTHER                 -> "absent"
                    /\ pc' = "done"
  /\ UNCHANGED <<op, req, httpCalls, resp, body, apiResp, codeMap, lastClass>>
  /\ UNCHANGED ctxVars
  /\ UNCHANGED lim
  /\ UNCHANGED envVars
  /\ UNCHANGED stdout

\* The checks after decoding and the return statement.
Classify ==
  /\ pc = "classify"
  /\ LET statusFails == ~op.statusFirst /\ ~StatusPasses(op, resp.status)
     IN  IF statusFails \/ ~apiResp.success
           THEN /\ err' = ResponseError(op, codeMap, apiResp)
                /\ result' = IF op.resOnErr THEN "present" ELSE "absent"
                /\ pc' = "done"
           ELSE IF op.postCheck /\ ~apiResp.payload
             THEN /\ err' = StageError("classify", "none")
                  /\ result' = result
                  /\ pc' = "done"
             ELSE IF req = "nil" /\ op.nilDeref = "result"
               THEN /\ err' = err
                    /\ result' = result
                    /\ pc' = "panic"
               ELSE /\ err' = err
                    /\ result' = CASE op.result = "struct"  -> "present"
                                   [] op.result = "payload" ->
                                        IF apiResp.payload THEN "present" ELSE "absent"
                                   [] OTHER                 -> "absent"
                    /\ pc' = "done"
  /\ UNCHANGED <<op, req, httpCalls, resp, body, apiResp, codeMap, lastClass>>
  /\ UNCHANGED ctxVars
  /\ UNCHANGED lim
  /\ UNCHANGED envVars
  /\ UNCHANGED stdout

Next ==
  \/ \E o \in Operations : \E c \in Classes(o) : \E l \in LimitsOf(o, c) : Call(o, c, l)
  \/ Validate
  \/ Encode
  \/ Build
  \/ Transmit
  \/ Await
  \/ Read
  \/ CheckStatus
  \/ Decode
  \/ Classify
  \/ Return

\* A client making one call after another; no context is ever cancelled.
Spec == Init /\ [][Next]_vars

\* One call, and its repetition, by a caller who may cancel the context at
\* any point of the call.
NextCtx ==
  \/ \E o \in Operations : \E c \in Classes(o) : \E l \in LimitsOf(o, c) : Call(o, c, l)
  \/ Validate
  \/ Encode
  \/ Build
  \/ Transmit
  \/ Await
  \/ Read
  \/ CheckStatus
  \/ Decode
  \/ Classify
  \/ Repeat
  \/ Cancel

SpecCtx == Init /\ [][NextCtx]_vars


\* http.Client.Timeout expiring while the call waits in httpClient.Do: Do
\* returns an error.  A client without Timeout has no such timer.
Timeout ==
  /\ pc = "waiting"
  /\ timeout # NoTimeout
  /\ pc' = "done"
  /\ err' = StageError("transmit", op.xmitErr)
  /\ UNCHANGED <<op, req, httpCalls, resp, body, apiResp, result, codeMap, lastClass>>
  /\ UNCHANGED ctxVars
  /\ UNCHANGED lim
  /\ UNCHANGED envVars
  /\ UNCHANGED stdout

\* One call of a manager built by NewClient or by its own constructor, with
\* a context that is never cancelled.  The goroutine of the call keeps
\* running and an armed timer fires; nothing obliges the server to answer.
InitLive == \E t \in {NoTimeout, ClientTimeout} : InitOf(t, "nm")

CallStep ==
  \/ Validate
  \/ Encode
  \/ Build
  \/ Transmit
  \/ Read
  \/ CheckStatus
  \/ Decode
  \/ Classify

NextLive ==
  \/ \E o \in Operations : \E c \in Classes(o) : \E l \in LimitsOf(o, c) : Call(o, c, l)
  \/ CallStep
  \/ Await
  \/ Timeout

SpecLive ==
  InitLive /\ [][NextLive]_vars /\ WF_vars(CallStep) /\ WF_vars(Timeout)

(***************************************************************************)
(* Node.GetDetails, called by several goroutines on the same *Node.  The   *)
(* goroutines interleave between the statements of the function.           *)
(***************************************************************************)
\* The nil check of n.nodeManagement, and the request built from n.NodeId.
GetDetailsEnter(g) ==
  /\ gpc[g] = "idle"
  /\ IF node.nodeManagement = "nil"
       THEN /\ gpc' = [gpc EXCEPT ![g] = "done"]
            /\ gret' = [gret EXCEPT ![g] = ReturnError("ErrNodeManagementNotInitialized")]
       ELSE /\ gpc' = [gpc EXCEPT ![g] = "call"]
            /\ gret' = gret
  /\ UNCHANGED <<node, gdata, timeout>>
  /\ UNCHANGED callVars

\* data, err := n.nodeManagement.GetNodeDetails(ctx, req); an error is
\* returned as it is.
GetDetailsCall(g) ==
  /\ gpc[g] = "call"
  /\ \E out \in Outcomes :
       /\ gdata' = [gdata EXCEPT ![g] = out]
       /\ IF out.kind = "error"
            THEN /\ gpc' = [gpc EXCEPT ![g] = "done"]
                 /\ gret' = [gret EXCEPT ![g] = ReturnError("GetNodeDetails")]
            ELSE /\ gpc' = [gpc EXCEPT ![g] = "lookup"]
                 /\ gret' = gret
  /\ UNCHANGED <<node, timeout>>
  /\ UNCHANGED callVars

\* A lookup that copies the name into the record before it tests ok.
GetDetailsLookupAssigning(g) ==
  /\ gpc[g] = "lookup"
  /\ node' = [node EXCEPT !.NodeName = gdata[g].NodeName]
  /\ IF gdata[g].kind = "absent"
       THEN /\ gpc' = [gpc EXCEPT ![g] = "done"]
            /\ gret' = [gret EXCEPT ![g] = ReturnError("ErrNodeNotFound")]
       ELSE /\ gpc' = [gpc EXCEPT ![g] = "assignRest"]
            /\ gret' = gret
  /\ UNCHANGED <<gdata, timeout>>
  /\ UNCHANGED callVars

\* details, ok := data[n.NodeId]; without an entry the call fails.
GetDetailsLookup(g) ==
  /\ gpc[g] = "lookup"
  /\ IF gdata[g].kind = "absent"
       THEN /\ gpc' = [gpc EXCEPT ![g] = "done"]
            /\ gret' = [gret EXCEPT ![g] = ReturnError("ErrNodeNotFound")]
       ELSE /\ gpc' = [gpc EXCEPT ![g] = "assignName"]
            /\ gret' = gret
  /\ UNCHANGED <<node, gdata, timeout>>
  /\ UNCHANGED callVars

\* n.NodeName = details.NodeName
GetDetailsAssignName(g) ==
  /\ gpc[g] = "assignName"
  /\ node' = [node EXCEPT !.NodeName = gdata[g].NodeName]
  /\ gpc' = [gpc EXCEPT ![g] = "assignRest"]
  /\ UNCHANGED <<gdata, gret, timeout>>
  /\ UNCHANGED callVars

\* The assignments of the other fields, n.Modified among them.
GetDetailsAssignRest(g) ==
  /\ gpc[g] = "assignRest"
  /\ node' = [node EXCEPT !.Modified = gdata[g].Modified]
  /\ gpc' = [gpc EXCEPT ![g] = "return"]
  /\ UNCHANGED <<gdata, gret, timeout>>
  /\ UNCHANGED callVars

\* return n, nil: the caller gets the pointer to the shared record.
GetDetailsReturn(g) ==
  /\ gpc[g] = "return"
  /\ gret' = [gret EXCEPT ![g] = [kind |-> "node", kinds |-> {},
                                  NodeName |-> node.NodeName,
                                  Modified |-> node.Modified]]
  /\ gpc' = [gpc EXCEPT ![g] = "done"]
  /\ UNCHANGED <<node, gdata, timeout>>
  /\ UNCHANGED callVars

\* A Node made by the SDK or by the caller itself.
InitNode == \E m \in {"nil", "nm"} : InitOf(NoTimeout, m)

NextNode ==
  \E g \in Goroutines :
    \/ GetDetailsEnter(g)
    \/ GetDetailsCall(g)
    \/ GetDetailsLookup(g)
    \/ GetDetailsAssignName(g)
    \/ GetDetailsAssignRest(g)
    \/ GetDetailsReturn(g)

\* Each goroutine calls GetDetails once on the same Node.
SpecNode == InitNode /\ [][NextNode]_vars

(***************************************************************************)
(* Properties.                                                             *)
(***************************************************************************)
Is2xx(status) == status >= StatusOK /\ status < StatusMultipleChoices

\* The call has returned and a response was received from the server.
Answered == pc = "done" /\ resp # NoResp

\* C1: a request that fails the operation's validation ends the call with
\* the validation error, no result, and no call of httpClient.Do.
C1_ValidationBeforeNetwork ==
  (pc = "done" /\ req \in op.rejects) =>
     /\ err.stage = "validate"
     /\ httpCalls = 0
     /\ resp = NoResp
     /\ result = "absent"

\* C1 witness: CreateVariable rejected an unsupported type without a request.
C1_Witness ==
  /\ pc = "done"
  /\ op.name = "CreateVariable"
  /\ req = "invalid"
  /\ err.stage = "validate"
  /\ httpCalls = 0

\* C2: a response whose status is outside 200..299, or whose envelope has
\* success = false, never ends the call without an error.
C2_BothSignalsConsulted ==
  (Answered /\ (~Is2xx(resp.status)
                 \/ (resp.body.kind = "json" /\ ~resp.body.env.success)))
     => err # NoError

\* C3: a response with any status in 200..299 whose envelope, decoded by the
\* call, has success = true and carries the payload ends the call without
\* an error.
C3_Any2xxSucceeds ==
  (Answered /\ Is2xx(resp.status) /\ resp.body.kind = "json"
            /\ apiResp = resp.body.env /\ apiResp.success /\ apiResp.payload)
     => err = NoError

\* C4: a response with a status outside 200..299 and a well-formed envelope
\* ends the call with the error the registry assigns to the envelope's
\* reason code, carrying the envelope's error string.
C4_ErrorEnvelopeDecoded ==
  (Answered /\ ~Is2xx(resp.status) /\ resp.body.kind = "json") =>
     /\ err.kinds = { IF resp.body.env.reasonCode \in DOMAIN codeMapInit
                        THEN codeMapInit[resp.body.env.reasonCode]
                        ELSE ErrUnknown }
     /\ err.msg = resp.body.env.error

\* C5: the envelope inspected by the checks after decoding is the one in the
\* body of the response received in the same call.
C5_EnvelopeFromResponse ==
  pc = "classify" => (resp.body.kind = "json" /\ apiResp = resp.body.env)

\* C6: a call never returns both an error and a result.
C6_NeverResultAndError ==
  (pc = "done" /\ err # NoError) => result = "absent"

\* C7: every returned error matches exactly one sentinel under errors.Is.
C7_ExactlyOneKind ==
  (pc = "done" /\ err # NoError) => Cardinality(err.kinds) = 1

C11_AtMostOneRequest == httpCalls <= 1

\* C11 witness: the transport failed and the call returned that failure
\* after its single request.
C11_Witness ==
  /\ pc = "done"
  /\ httpCalls = 1
  /\ err.stage = "transmit"
  /\ resp = NoResp

\* C12: when decoding of the response body begins, the whole body has been
\* read into the buffer.
C12_BufferedBeforeDecode ==
  (pc = "decode" /\ op.decodeFrom = "response") => body = resp.body

\* The sentinel of each pipeline stage.
StageKind(stage) ==
  CASE stage = "encode"   -> "ErrRequestEncodeFailed"
    [] stage = "build"    -> "ErrRequestBuildFailed"
    [] stage = "transmit" -> "ErrRequestFailed"
    [] stage = "read"     -> "ErrResponseReadFailed"
    [] stage = "decode"   -> "ErrResponseDecodeFailed"

\* C13: a call that fails in the encode, build, transmit, read or decode
\* stage returns an error of that stage's kind and no other, and a response
\* body whose reading fails ends the call with ErrResponseReadFailed.
C13_StageOwnKind ==
  pc = "done" =>
    /\ (err.stage \in {"encode", "build", "transmit", "read", "decode"}
          => err.kinds = {StageKind(err.stage)})
    /\ (resp.body.kind = "broken" => err.kinds = {StageKind("read")})

\* C14: when the caller's context was cancelled before the call reached
\* httpClient.Do, the transport writes no byte of the request.
C14_CancelledBeforeTransmitSendsNothing ==
  cancelledAt = "before" => ~sent

\* C14 witness: the context was cancelled before Do, Do was called and the
\* call ended with the transport's error, nothing having been written.
C14_Witness ==
  /\ pc = "done"
  /\ cancelledAt = "before"
  /\ httpCalls = 1
  /\ err.stage = "transmit"
  /\ ~sent

\* C15: when the caller's context is cancelled while httpClient.Do waits
\* for the response, the call returns an error of kind ErrRequestFailed
\* without having received a response.
C15_CancelWhileWaitingIsTransportFailed ==
  (pc = "done" /\ cancelledAt = "waiting") =>
     /\ err.stage = "transmit"
     /\ resp = NoResp
     /\ err.kinds = {"ErrRequestFailed"}

\* C16: a call whose context is cancelled after the whole response has been
\* read returns the result and the error that the same call, answered with
\* the same response, returned when its context was not cancelled.
C16_CancelAfterResponseChangesNothing ==
  (pc = "done" /\ first # NoFirst /\ cancelledAt = "after" /\ resp = first.resp)
     => (err = first.err /\ result = first.result)

\* C16 witness: the repeated call was cancelled after the response had been
\* read and still returned its result.
C16_Witness ==
  /\ pc = "done"
  /\ first # NoFirst
  /\ cancelledAt = "after"
  /\ resp = first.resp
  /\ result = "present"
  /\ err = NoError

\* C17: a cancellation never makes a call fail in the read or the decode
\* stage: a call whose context was cancelled and whose response body is a
\* complete JSON document does not end with a read or decode error.
C17_CancellationOnlyAtTransmit ==
  (pc = "done" /\ cancelledAt # "never" /\ resp.body.kind = "json")
     => err.stage \notin {"read", "decode"}

\* C18: a list operation called with a limit below 1 or above 1000 ends
\* with a validation error, sends no request and leaves the limit it was
\* given as it is.
C18_InvalidLimitRejected ==
  (pc = "done" /\ op.limit.has /\ req = "valid"
      /\ (lim.caller < 1 \/ lim.caller > 1000)) =>
     /\ err.stage = "validate"
     /\ httpCalls = 0
     /\ lim.local = lim.caller

\* C19: the caller's request record always holds the limit it held when the
\* call was made.
C19_RequestUnchanged == lim.req = lim.caller

\* C20: no call ends in a panic.
C20_NeverPanics == pc # "panic"

\* C21: CreateNode and CreateVariable called with a request whose required
\* name is empty end with a validation error and send no request.
C21_EmptyNameRejected ==
  (pc = "done" /\ op.name \in {"CreateNode", "CreateVariable"} /\ req = "missing")
     => (err.stage = "validate" /\ httpCalls = 0)

\* C22: GetAggregationByTime called with a compute method or an interval
\* measure outside the fixed sets ends with a validation error and sends no
\* request.
C22_UnlistedComputeRejected ==
  (pc = "done" /\ op.name = "GetAggregationByTime" /\ req = "unlisted")
     => (err.stage = "validate" /\ httpCalls = 0)

\* C23: a key-value store operation called with a namespace whose scope is
\* neither global nor node, or whose id is empty, ends with a validation
\* error and sends no request.
C23_BadNamespaceRejected ==
  (pc = "done" /\ op.mgr = "valuestore" /\ req \in {"invalid", "emptyId"})
     => (err.stage = "validate" /\ httpCalls = 0)

\* C24: the request that reaches the transport behind the interceptor is a
\* POST with Content-Type and Accept application/json and Authorization
\* Bearer {apiKey}.
C24_WireRequestHeaders ==
  sent => LET w == RoundTrip(NewRequest(op)).next
          IN /\ w.method = "POST"
             /\ w.header["Content-Type"] = "application/json"
             /\ w.header["Accept"] = "application/json"
             /\ w.header["Authorization"] = "Bearer " \o apiKey

\* C25: the operation in progress belongs to a manager that holds no token
\* of its own and does not set the Authorization header itself.
C25_NoManagerHoldsToken ==
  (op \in Operations /\ pc # "idle")
     => (~op.hasToken /\ "Authorization" \notin op.sets)

\* C27: a call writes nothing to standard output, and a call that received
\* a response which is not a 2xx success envelope returns a non-nil error.
C27_NothingSwallowedNothingPrinted ==
  /\ stdout = 0
  /\ (Answered /\ ~(/\ Is2xx(resp.status)
                    /\ resp.body.kind = "json"
                    /\ resp.body.env.success))
       => err # NoError

\* C28: CreateNode with a valid request against a status-200 response whose
\* envelope has success true and carries the node id returns no error and a
\* node built from the envelope that was decoded from that response.
C28_CreateNodeResult ==
  (/\ pc = "done"
   /\ op.name = "CreateNode"
   /\ req = "valid"
   /\ resp.status = StatusOK
   /\ resp.body.kind = "json"
   /\ resp.body.env.success
   /\ resp.body.env.payload)
     => (err = NoError /\ result = "present" /\ apiResp = resp.body.env)

\* C29: every call that was started ends, by returning or by panicking.
C29_EveryCallEnds == (pc = "validate") ~> (pc \in {"done", "panic"})

\* C26: a call of Node.GetDetails that returns the node returns it with the
\* details of its own response, whatever the other goroutine does.
C26_OwnResponseOnly ==
  \A g \in Goroutines :
    gret[g].kind = "node"
      => (/\ gret[g].NodeName = gdata[g].NodeName
          /\ gret[g].Modified = gdata[g].Modified)

\* C30: a step changes the node record only if it is an assignment of a call
\* of GetDetails that has its manager, got no error from the request and
\* found the node's id in the response.
C30_NodeChangedOnlySucceeding ==
  [][node' # node =>
       \E g \in Goroutines :
         /\ gpc[g] \in {"assignName", "assignRest"}
         /\ gpc'[g] # gpc[g]
         /\ node.nodeManagement # "nil"
         /\ gdata[g].kind = "details"]_vars

\* C30 witness: a call has failed because the response lacks the node's id,
\* and the record is as it was made.
C30_Witness ==
  \E g \in Goroutines :
    /\ gpc[g] = "done"
    /\ gret[g] = ReturnError("ErrNodeNotFound")
    /\ node = NewNode(node.nodeManagement)

=============================================================================
